---- MODULE Spec2Model ----
(***************************************************************************)
(* A model of deeplake/integrations/mmseg/mmseg_.py: the evaluation        *)
(* routine MMSegDataset.evaluate, the loader builder build_dataloader and  *)
(* the training orchestration _train_segmentor, the per-sample transform   *)
(* and the entry point train_segmentor.                                    *)
(*                                                                         *)
(* Python values are modelled as follows.  None is the string "None"; an   *)
(* absent dictionary key is the string "absent"; a dictionary is a         *)
(* function from key strings to values; a list is a sequence.  A real      *)
(* number is an exact fraction <<numerator, denominator>>, and a zero      *)
(* denominator stands for NaN (numpy's 0/0).  Where the rounding of a      *)
(* float32 or float64 computation decides a value, the computation is      *)
(* carried out in binary floating point of that width.                     *)
(***************************************************************************)
EXTENDS Integers, Sequences, FiniteSets, TLC

VARIABLES
    \* ---- MMSegDataset.evaluate ----
    e_pc,        \* position inside evaluate
    e_args,      \* the arguments evaluate was called with
    e_self,      \* the MMSegDataset: num_gpus, CLASSES
    e_results,   \* the local `results`
    e_metric,    \* the local `metric` (a string, or a list once normalised)
    e_areas,     \* the per-class total areas the metric primitive summed up
    e_ret,       \* ret_metrics: the OrderedDict returned by the metric primitive
    e_summary,   \* ret_metrics_summary
    e_class,     \* ret_metrics_class
    e_log,       \* what print_log has been given, in order
    e_out,       \* eval_results, the dictionary being returned
    e_err,       \* the exception evaluate ended with, or "none"
    \* ---- a direct call of build_dataloader ----
    b_pc,        \* "call", then "returned" or "raised"
    b_args,      \* the arguments of the call
    b_res,       \* its outcome: exception, collaborator calls, loader
    \* ---- _train_segmentor ----
    t_pc,        \* position inside _train_segmentor
    t_args,      \* the arguments of the call and the cfg entries of the train split
    t_cfg,       \* the other cfg entries, filled in as the code reads them
    t_loc,       \* the local variables
    t_log,       \* the collaborator calls and warnings made so far, in order
    t_err,       \* the exception the call ended with, or "none"
    \* ---- transform ----
    x_pc,        \* position inside transform
    x_in,        \* sample_in (image and mask) and the pipeline
    x_img,       \* the local `img`
    x_mask,      \* the local `mask`
    x_shape,     \* the local `shape`
    x_record,    \* pipeline_dict
    x_out,       \* what transform returns
    \* ---- train_segmentor ----
    s_pc,        \* position inside train_segmentor
    s_args,      \* distributed, cfg.gpu_ids as configured, the visible devices
    s_gpu_ids,   \* cfg.gpu_ids once it has its default
    s_port,      \* the port _get_free_port returned, or None
    s_port_calls, \* how often _get_free_port was called
    s_procs,     \* the spawned processes: "pending", "running" or "done"
    s_calls      \* the calls of _train_segmentor made so far, in order

e_vars == <<e_pc, e_args, e_self, e_results, e_metric, e_areas, e_ret,
            e_summary, e_class, e_log, e_out, e_err>>

b_vars == <<b_pc, b_args, b_res>>

t_vars == <<t_pc, t_args, t_cfg, t_loc, t_log, t_err>>

x_vars == <<x_pc, x_in, x_img, x_mask, x_shape, x_record, x_out>>

s_vars == <<s_pc, s_args, s_gpu_ids, s_port, s_port_calls, s_procs, s_calls>>

vars == <<e_pc, e_args, e_self, e_results, e_metric, e_areas, e_ret,
          e_summary, e_class, e_log, e_out, e_err,
          b_pc, b_args, b_res,
          t_pc, t_args, t_cfg, t_loc, t_log, t_err,
          x_pc, x_in, x_img, x_mask, x_shape, x_record, x_out,
          s_pc, s_args, s_gpu_ids, s_port, s_port_calls, s_procs, s_calls>>

None == "None"

(***************************************************************************)
(* Bounds of the model.                                                    *)
(***************************************************************************)
MaxClasses == 2
MaxResults == 4
MaxGpus == 2
MaxSide == 2
MaxDevices == 2

(***************************************************************************)
(* Generic helpers: Python dictionaries and ordered dictionaries.          *)
(***************************************************************************)
EmptyDict == [k \in {} |-> None]

DictPut(d, k, v) == [x \in (DOMAIN d) \cup {k} |-> IF x = k THEN v ELSE d[x]]

\* OrderedDict as a sequence of <<key, value>> pairs with distinct keys.
ODKeys(od) == {od[i][1] : i \in 1..Len(od)}

ODGet(od, k) == (CHOOSE i \in 1..Len(od) : od[i][1] = k)

ODVal(od, k) == od[ODGet(od, k)][2]

\* od[k] = v: a present key keeps its position, a new key goes last.
ODPut(od, k, v) ==
    IF k \in ODKeys(od)
    THEN [i \in 1..Len(od) |-> IF od[i][1] = k THEN <<k, v>> ELSE od[i]]
    ELSE Append(od, <<k, v>>)

\* od.pop(k, None)
ODPop(od, k) == SelectSeq(od, LAMBDA p : p[1] # k)

\* od.move_to_end(k, last=False)
ODMoveFirst(od, k) == <<od[ODGet(od, k)]>> \o ODPop(od, k)

(***************************************************************************)
(* Exact arithmetic on fractions.                                          *)
(***************************************************************************)
IsNaN(q) == q[2] = 0

RECURSIVE GCD(_, _)
GCD(a, b) == IF b = 0 THEN a ELSE GCD(b, a % b)

\* The same fraction in lowest terms (zero is 0/1).
Reduce(q) ==
    IF IsNaN(q) THEN q
    ELSE IF q[1] = 0 THEN <<0, 1>>
    ELSE <<q[1] \div GCD(q[1], q[2]), q[2] \div GCD(q[1], q[2])>>

RAdd(a, b) == Reduce(<<a[1] * b[2] + b[1] * a[2], a[2] * b[2]>>)

\* x * 10000 = k + rem / d with 0 <= rem < d, digit by digit so that no
\* product leaves the machine integers.
Scaled(q) ==
    LET n == Reduce(q)[1]
        d == Reduce(q)[2]
        r0 == n % d
        r1 == (r0 * 10) % d
        r2 == (r1 * 10) % d
        r3 == (r2 * 10) % d
    IN  [k |-> ((((n \div d) * 10 + (r0 * 10) \div d) * 10 + (r1 * 10) \div d) * 10
                + (r2 * 10) \div d) * 10 + (r3 * 10) \div d,
         rem |-> (r3 * 10) % d,
         d |-> d]

\* The nearest integer to k + rem / d, a tie to the even neighbour.
RoundHalfEven(k, rem, d) ==
    IF 2 * rem < d THEN k
    ELSE IF 2 * rem > d THEN k + 1
    ELSE IF k % 2 = 0 THEN k ELSE k + 1

\* The error a float32 computation of x * 10000 can carry after so many
\* roundings of 2^-24 each, in units of 1 / (2 d): the floor of
\* roundings * n * 10000 / 2^23 (n the numerator of x in lowest terms),
\* taken in two parts.
Slack(q, roundings) ==
    LET n == Reduce(q)[1]
        hi == roundings * 625 * (n \div 1024)
    IN  hi \div 512 + ((hi % 512) * 1024 + roundings * 625 * (n % 1024)) \div 524288

\* x * 10000 lies so near the midpoint of two integers (or on it) that the
\* error of a float computation of that many roundings can put the float on
\* either side.  Of a float64 computation only a midpoint itself is that
\* near: its error, roundings * n * 10000 / 2^52 of the unit, stays below
\* the unit for every numerator met.
NearTie(q, roundings, p) ==
    /\ ~IsNaN(q)
    /\ LET off == 2 * Scaled(q).rem - Scaled(q).d
       IN  (IF off < 0 THEN -off ELSE off) <= (IF p = 24 THEN Slack(q, roundings) ELSE 0)

(***************************************************************************)
(* Binary floating point.  A natural number of any size is the sequence of *)
(* its digits in base 2^13, the least significant first (zero is <<>>); a  *)
(* float is [m |-> digits, e |-> exponent], the number m * 2^e.  Every     *)
(* operation computes the exact result and rounds it to the p binary      *)
(* digits of the format (24 for float32, 53 for float64), a tie to the     *)
(* even neighbour, as IEEE 754 arithmetic does.  The values met here are   *)
(* finite and not negative.                                                *)
(***************************************************************************)
LimbBits == 13

Base == 2 ^ LimbBits

RECURSIVE Limbs(_)
Limbs(n) == IF n = 0 THEN <<>> ELSE <<n % Base>> \o Limbs(n \div Base)

RECURSIVE LimbsValue(_)
LimbsValue(m) == IF m = <<>> THEN 0 ELSE Head(m) + Base * LimbsValue(Tail(m))

Limb(m, i) == IF i \in 1..Len(m) THEN m[i] ELSE 0

\* Without leading zero digits.
RECURSIVE LNorm(_)
LNorm(m) ==
    IF m # <<>> /\ m[Len(m)] = 0 THEN LNorm(SubSeq(m, 1, Len(m) - 1)) ELSE m

\* The digits of the number whose digit i is cols[i] + the carry, cols[i]
\* being any natural number.
RECURSIVE LCarry(_, _)
LCarry(cols, c) ==
    IF cols = <<>> THEN Limbs(c)
    ELSE <<(Head(cols) + c) % Base>> \o LCarry(Tail(cols), (Head(cols) + c) \div Base)

LAdd(a, b) ==
    LCarry([i \in 1..(IF Len(a) > Len(b) THEN Len(a) ELSE Len(b)) |->
               Limb(a, i) + Limb(b, i)], 0)

\* a - b - c for a >= b + c.
RECURSIVE LBorrow(_, _, _)
LBorrow(a, b, c) ==
    IF a = <<>> THEN <<>>
    ELSE <<(Head(a) - Limb(b, 1) - c + Base) % Base>>
         \o LBorrow(Tail(a), IF b = <<>> THEN b ELSE Tail(b),
                    IF Head(a) - Limb(b, 1) - c < 0 THEN 1 ELSE 0)

LSub(a, b) == LNorm(LBorrow(a, b, 0))

LLess(a, b) ==
    \/ Len(a) < Len(b)
    \/ /\ Len(a) = Len(b)
       /\ \E i \in 1..Len(a) :
             /\ a[i] < b[i]
             /\ \A j \in (i + 1)..Len(a) : a[j] = b[j]

\* a[lo] * b[k - lo] + ... + a[hi] * b[k - hi]
RECURSIVE Column(_, _, _, _, _)
Column(a, b, k, lo, hi) ==
    IF lo > hi THEN 0
    ELSE Limb(a, lo) * Limb(b, k - lo) + Column(a, b, k, lo + 1, hi)

LMul(a, b) ==
    IF a = <<>> \/ b = <<>> THEN <<>>
    ELSE LNorm(LCarry([k \in 1..(Len(a) + Len(b)) |-> Column(a, b, k + 1, 1, Len(a))], 0))

\* The number of binary digits.
LBitLen(m) ==
    IF m = <<>> THEN 0
    ELSE LimbBits * (Len(m) - 1)
         + (CHOOSE k \in 1..LimbBits : 2 ^ (k - 1) <= m[Len(m)] /\ m[Len(m)] < 2 ^ k)

\* m * 2^k
LShl(m, k) ==
    LET r == k % LimbBits
    IN  IF m = <<>> THEN m
        ELSE [i \in 1..(k \div LimbBits) |-> 0]
             \o LNorm([i \in 1..(Len(m) + 1) |->
                         (Limb(m, i) % (2 ^ (LimbBits - r))) * (2 ^ r)
                         + Limb(m, i - 1) \div (2 ^ (LimbBits - r))])

\* m \div 2^k
LShr(m, k) ==
    LET r == k % LimbBits
        rest == SubSeq(m, k \div LimbBits + 1, Len(m))
    IN  LNorm([i \in 1..Len(rest) |->
                 rest[i] \div (2 ^ r)
                 + (Limb(rest, i + 1) % (2 ^ r)) * (2 ^ (LimbBits - r))])

\* Binary digit j of m, the lowest being digit 0.
LBit(m, j) == (Limb(m, j \div LimbBits + 1) \div (2 ^ (j % LimbBits))) % 2

\* One of the binary digits 0 .. j-1 of m is set.
LBelow(m, j) ==
    \/ \E i \in 1..(j \div LimbBits) : Limb(m, i) # 0
    \/ Limb(m, j \div LimbBits + 1) % (2 ^ (j % LimbBits)) # 0

\* One step of the long division by d, whose top digit is at least Base / 2:
\* the next digit of the quotient is the estimate from the two top digits of
\* what is left, or one or two below it.
QuotientDigit(cur, d) ==
    LET top == Limb(cur, Len(d) + 1) * Base + Limb(cur, Len(d))
        qhat == IF top \div d[Len(d)] < Base THEN top \div d[Len(d)] ELSE Base - 1
    IN  IF ~LLess(cur, LMul(d, Limbs(qhat))) THEN qhat
        ELSE IF ~LLess(cur, LMul(d, Limbs(qhat - 1))) THEN qhat - 1
        ELSE qhat - 2

\* The digits a[i], a[i-1], ..., a[1] are brought down one by one.
RECURSIVE DivideFrom(_, _, _, _, _)
DivideFrom(a, d, i, q, rem) ==
    IF i = 0 THEN [q |-> LNorm(q), r |-> rem]
    ELSE LET cur == LNorm(<<a[i]>> \o rem)
             digit == QuotientDigit(cur, d)
         IN  DivideFrom(a, d, i - 1, <<digit>> \o q, LSub(cur, LMul(d, Limbs(digit))))

\* [q |-> a \div d, r |-> a % d] for d # 0; both are scaled first so that
\* the top digit of the divisor is at least Base / 2.
LDivMod(a, d) ==
    LET t == LimbBits * Len(d) - LBitLen(d)
        res == DivideFrom(LShl(a, t), LShl(d, t), Len(LShl(a, t)), <<>>, <<>>)
    IN  [q |-> res.q, r |-> LShr(res.r, t)]

\* The float nearest to m * 2^e (plus a little, when sticky says that
\* digits were cut off behind m).
FRound(p, m, e, sticky) ==
    LET k == LBitLen(m) - p
        kept == LShr(m, k)
        up == /\ LBit(m, k - 1) = 1
              /\ (sticky \/ LBelow(m, k - 1) \/ LBit(m, k) = 1)
    IN  IF k <= 0 THEN [m |-> m, e |-> e]
        ELSE [m |-> IF up THEN LAdd(kept, <<1>>) ELSE kept, e |-> e + k]

\* The float of an integer.
FloatOf(p, n) == FRound(p, Limbs(n), 0, FALSE)

FMul(p, x, y) == FRound(p, LMul(x.m, y.m), x.e + y.e, FALSE)

FAdd(p, x, y) ==
    LET e == IF x.e < y.e THEN x.e ELSE y.e
    IN  FRound(p, LAdd(LShl(x.m, x.e - e), LShl(y.m, y.e - e)), e, FALSE)

\* x / y for y # 0: the quotient is carried to p + 2 digits or more and
\* the remainder tells whether anything follows.
FDiv(p, x, y) ==
    LET need == p + 2 + LBitLen(y.m) - LBitLen(x.m)
        s == IF need > 0 THEN need ELSE 0
        dm == LDivMod(LShl(x.m, s), y.m)
    IN  FRound(p, dm.q, x.e - y.e - s, dm.r # <<>>)

\* np.rint: the nearest integer, a tie to the even neighbour.
FRint(x) ==
    LET k == 0 - x.e
        whole == LimbsValue(LShr(x.m, k))
    IN  IF x.e >= 0 THEN LimbsValue(LShl(x.m, x.e))
        ELSE IF k > LBitLen(x.m) THEN 0
        ELSE IF LBit(x.m, k - 1) = 1 /\ (LBelow(x.m, k - 1) \/ whole % 2 = 1)
        THEN whole + 1
        ELSE whole

\* The float of the quotient of two totals, themselves floats.
FloatOfQuotient(p, q) == FDiv(p, FloatOf(p, q[1]), FloatOf(p, q[2]))

\* np.round(x * 100, 2) of a float x, as an integer count of hundredths:
\* numpy multiplies x * 100 by 100.0 again, rounds to an integer and
\* divides, every step in the width of the array.
RoundFloat(p, x) == FRint(FMul(p, FMul(p, x, FloatOf(p, 100)), FloatOf(p, 100)))

\* res + xs[1] + xs[2] + ..., from the left.
RECURSIVE SumInOrder(_, _, _)
SumInOrder(p, res, xs) ==
    IF xs = <<>> THEN res
    ELSE SumInOrder(p, FAdd(p, res, Head(xs)), Tail(xs))

\* numpy's pairwise summation (np.add.reduce over a contiguous array):
\* fewer than 8 floats are added from the left, up to 128 in 8 strided
\* partial sums that are then added in pairs, more by halving.
RECURSIVE pairwise_sum(_, _)
pairwise_sum(p, xs) ==
    LET n == Len(xs)
        n8 == n - (n % 8)
        r == [j \in 1..8 |->
                SumInOrder(p, xs[j], [k \in 1..(n8 \div 8 - 1) |-> xs[8 * k + j]])]
        half == (n \div 2) - ((n \div 2) % 8)
    IN  IF n < 8 THEN SumInOrder(p, FloatOf(p, 0), xs)
        ELSE IF n <= 128
        THEN SumInOrder(p,
                        FAdd(p, FAdd(p, FAdd(p, r[1], r[2]), FAdd(p, r[3], r[4])),
                                FAdd(p, FAdd(p, r[5], r[6]), FAdd(p, r[7], r[8]))),
                        SubSeq(xs, n8 + 1, n))
        ELSE FAdd(p, pairwise_sum(p, SubSeq(xs, 1, half)),
                     pairwise_sum(p, SubSeq(xs, half + 1, n)))

\* np.round(x * 100, 2): a percentage with two decimals, NaN staying NaN.
\* q is the exact value and x its float, computed with the given number of
\* roundings in floats of bits digits; p is the width in which x is
\* multiplied and rounded.  What numpy rounds is the float x * 100 * 100;
\* away from a midpoint it lies on the side of the exact q * 10000, so the
\* float is worked out near one only.
Round2Pct(q, x, bits, p, roundings) ==
    IF IsNaN(q) THEN <<0, 0>>
    ELSE IF NearTie(q, roundings, bits) THEN <<RoundFloat(p, x), 100>>
    ELSE <<RoundHalfEven(Scaled(q).k, Scaled(q).rem, Scaled(q).d), 100>>

\* x / 100.0
Div100(q) == <<q[1], q[2] * 100>>

RECURSIVE SumSeq(_)
SumSeq(s) == IF s = <<>> THEN <<0, 1>> ELSE RAdd(Head(s), SumSeq(Tail(s)))

\* A numpy value: [dim |-> 0, v |-> fraction] is a scalar and
\* [dim |-> 1, v |-> <<fraction, ...>>] a vector with one entry per class;
\* bits is the width of its floats, 24 binary digits for a float32 array
\* and 53 for a float64 one.  v holds the exact value of every entry.
Scalar(q, bits) == [dim |-> 0, v |-> q, bits |-> bits]
Vector(s, bits) == [dim |-> 1, v |-> s, bits |-> bits]
Entries(a) == IF a.dim = 0 THEN <<a.v>> ELSE a.v

\* A mean that lets NaN through: np.mean in the place of np.nanmean.
NanMean_PlainMean(a) ==
    LET s == SumSeq(Entries(a))
    IN  IF \E i \in 1..Len(Entries(a)) : IsNaN(Entries(a)[i])
        THEN <<0, 0>>
        ELSE IF Entries(a) = <<>> THEN <<0, 0>>
        ELSE <<s[1], s[2] * Len(Entries(a))>>

\* np.nanmean: the mean of the entries that are not NaN, NaN when there is
\* none.
NanMean(a) ==
    LET kept == SelectSeq(Entries(a), LAMBDA q : ~IsNaN(q))
        s == SumSeq(kept)
    IN  IF kept = <<>> THEN <<0, 0>> ELSE <<s[1], s[2] * Len(kept)>>

(***************************************************************************)
(* Datasets, configuration dictionaries and the collaborators that live    *)
(* outside this file.                                                      *)
(***************************************************************************)
Absent == "absent"

\* dict.get(key, default) and {**a, **b}
DictGet(d, k, default) == IF k \in DOMAIN d THEN d[k] ELSE default

DictWithout(d, k) == [x \in (DOMAIN d) \ {k} |-> d[x]]

DictMerge(a, b) == [k \in (DOMAIN a) \cup (DOMAIN b) |->
                       IF k \in DOMAIN b THEN b[k] ELSE a[k]]

\* An optional tensor mapping: None, or a dictionary from 'img' and
\* 'gt_semantic_seg' to tensor names.
NoMapping == [kind |-> "none", d |-> EmptyDict]
Mapping(d) == [kind |-> "dict", d |-> d]

\* Python truth of an optional mapping: None and {} are false.
MappingTruthy(mp) == mp.kind = "dict" /\ DOMAIN mp.d # {}

Tensor(name, htype, class_names) ==
    [name |-> name, htype |-> htype, class_names |-> class_names]

TwoClasses == <<"background", "road">>

\* The datasets of the model.  The validation dataset handed in by the
\* caller also holds a tensor named like the training masks.
DsTrainArg ==
    [id |-> "ds_train(arg)",
     tensors |-> <<Tensor("images", "image", <<>>),
                   Tensor("masks", "segment_mask", TwoClasses)>>]

DsTrainCfg ==
    [id |-> "ds_train(cfg)",
     tensors |-> <<Tensor("images", "image", <<>>),
                   Tensor("labels", "segment_mask", TwoClasses)>>]

DsValArg ==
    [id |-> "ds_val(arg)",
     tensors |-> <<Tensor("val_images", "image", <<>>),
                   Tensor("val_masks", "segment_mask", TwoClasses),
                   Tensor("masks", "segment_mask", TwoClasses)>>]

DsValCfg ==
    [id |-> "ds_val(cfg)",
     tensors |-> <<Tensor("val_images", "image", <<>>),
                   Tensor("val_labels", "segment_mask", TwoClasses)>>]

NoDataset == [id |-> None, tensors |-> <<>>]

TensorNames(ds) == {ds.tensors[i].name : i \in 1..Len(ds.tensors)}

\* dataset[name]: a key that is no string (None) or names no tensor raises.
LookupError(ds, name) ==
    IF name = None THEN "InvalidKeyTypeError"
    ELSE IF name \notin TensorNames(ds) THEN "TensorDoesNotExistError"
    ELSE "none"

\* dataset[name].info.class_names
ClassNamesOf(ds, name) ==
    ds.tensors[CHOOSE i \in 1..Len(ds.tensors) : ds.tensors[i].name = name].class_names

\* find_tensor_with_htype: the first tensor of that htype, None without one.
find_tensor_with_htype(ds, htype) ==
    LET hits == SelectSeq(ds.tensors, LAMBDA t : t.htype = htype)
    IN  IF hits = <<>> THEN None ELSE hits[1].name

(***************************************************************************)
(* build_pipeline and build_dataloader                                     *)
(***************************************************************************)
\* A pipeline step is named by its 'type'; a step without that key is
\* NoType.
NoType == "<no type>"

\* lines 675-682: step["type"] is read of every step.
BuildPipelineError(steps) ==
    IF \E i \in 1..Len(steps) : steps[i] = NoType THEN "KeyError" ELSE "none"

build_pipeline(steps) ==
    SelectSeq(steps, LAMBDA st : st \notin {"LoadImageFromFile", "LoadAnnotations"})

\* lines 718-724
TensorsDict(images_tensor, masks_tensor) ==
    IF masks_tensor # None
    THEN ("images_tensor" :> images_tensor) @@ ("masks_tensor" :> masks_tensor)
    ELSE ("images_tensor" :> images_tensor)

\* lines 98-125: the MMSegDataset build_dataloader constructs.  ignore_index
\* and reduce_zero_label take the constructor's defaults, since the call does
\* not pass them.
DefaultIgnoreIndex == 255

\* lines 118-121: in the modes "val" and "test" the constructor looks up
\* the images tensor, the masks tensor (when the mapping holds one) and the
\* class names of tensors_dict["masks_tensor"]; the first lookup that fails
\* ends it.
MMSegDatasetError(dataset, tensors_dict, mode) ==
    IF mode \notin {"val", "test"} THEN "none"
    ELSE IF LookupError(dataset, tensors_dict["images_tensor"]) # "none"
    THEN LookupError(dataset, tensors_dict["images_tensor"])
    ELSE IF "masks_tensor" \notin DOMAIN tensors_dict THEN "KeyError"
    ELSE LookupError(dataset, tensors_dict["masks_tensor"])

MMSegDatasetOf(dataset, tensors_dict, mode, pipeline, num_gpus, batch_size) ==
    [dataset |-> dataset.id,
     mode |-> mode,
     pipeline |-> pipeline,
     num_gpus |-> num_gpus,
     batch_size |-> batch_size,
     ignore_index |-> DefaultIgnoreIndex,
     reduce_zero_label |-> FALSE,
     images |-> IF mode \in {"val", "test"} THEN tensors_dict["images_tensor"] ELSE None,
     masks |-> IF mode \in {"val", "test"}
               THEN DictGet(tensors_dict, "masks_tensor", None) ELSE None,
     CLASSES |-> IF mode \in {"val", "test"}
                 THEN ClassNamesOf(dataset, tensors_dict["masks_tensor"])
                 ELSE <<>>]

NoLoader == [impl |-> None]

\* v is None, for a v of any kind.
IsNone(v) == ToString(v) = ToString(None)

\* lines 713-715: a missing num_workers and one set to None both fall back.
NumWorkers(config) ==
    IF IsNone(DictGet(config, "num_workers", None))
    THEN config["workers_per_gpu"]
    ELSE config["num_workers"]

\* lines 726-728
BatchSize(config) ==
    IF IsNone(DictGet(config, "batch_size", None))
    THEN config["samples_per_gpu"]
    ELSE config["batch_size"]

\* A distributed check that accepts the python loader.
DistUnsupported_Never(dist, implementation) == FALSE

\* line 702
DistUnsupported(dist, implementation) == dist /\ implementation = "python"

\* lines 734-798: the loader of the chosen backend with its MMSegDataset.
\* The python loader keeps its own dataset and holds the MMSegDataset in
\* dataset.mmseg_dataset, so line 798 names the classes on the loader's
\* dataset only; the C++ loader's dataset is the MMSegDataset itself (line
\* 797), which line 798 therefore gives the class names in every mode.
LoaderOf(dataset, images_tensor, masks_tensor, implementation, pipeline, mode, config) ==
    LET tensors_dict == TensorsDict(images_tensor, masks_tensor)
        built == build_pipeline(pipeline)
        mmseg_ds == MMSegDatasetOf(dataset, tensors_dict, mode, built,
                                   config["num_gpus"], BatchSize(config))
    IN  [impl |-> implementation,
         source |-> dataset.id,
         images_tensor |-> images_tensor,
         masks_tensor |-> masks_tensor,
         mode |-> IF implementation = "python" THEN mode ELSE None,
         shuffle |-> DictGet(config, "shuffle", TRUE),
         batch_size |-> BatchSize(config),
         num_workers |-> NumWorkers(config),
         distributed |-> IF implementation = "python" THEN FALSE ELSE config["dist"],
         persistent_workers |-> IF implementation = "python" THEN FALSE
                                ELSE DictGet(config, "persistent_workers", FALSE),
         dataset |-> IF implementation = "python" THEN mmseg_ds
                     ELSE [mmseg_ds EXCEPT
                             !.CLASSES = ClassNamesOf(dataset, masks_tensor)],
         CLASSES |-> ClassNamesOf(dataset, masks_tensor)]

\* lines 685-799: the outcome of one call: the exception it ends with (or
\* "none"), the collaborator calls it made, in order, and the loader it
\* returns.  The MMSegDataset is constructed after the backend's loader, so
\* a lookup that fails in its constructor ends the call with both made.
build_dataloader(dataset, images_tensor, masks_tensor, implementation, pipeline, mode, config) ==
    IF LookupError(dataset, masks_tensor) # "none"
    THEN [err |-> LookupError(dataset, masks_tensor), log |-> <<>>, loader |-> NoLoader]
    ELSE IF BuildPipelineError(pipeline) # "none"
    THEN [err |-> BuildPipelineError(pipeline),
          log |-> << <<"dataset.CLASSES", dataset.id>> >>, loader |-> NoLoader]
    ELSE IF DistUnsupported(config["dist"], implementation)
    THEN [err |-> "NotImplementedError",
          log |-> << <<"dataset.CLASSES", dataset.id>>, <<"build_pipeline">> >>,
          loader |-> NoLoader]
    ELSE [err |-> MMSegDatasetError(dataset, TensorsDict(images_tensor, masks_tensor),
                                    mode),
          log |-> << <<"dataset.CLASSES", dataset.id>>, <<"build_pipeline">> >>
                  \o (IF implementation = "python"
                         /\ DictGet(config, "persistent_workers", FALSE)
                      THEN << <<"always_warn", "persistent_workers">> >> ELSE <<>>)
                  \o << <<IF implementation = "python" THEN "dataset.pytorch"
                          ELSE "dataloader", dataset.id>>,
                        <<"MMSegDataset", dataset.id, mode>> >>,
          loader |-> IF MMSegDatasetError(dataset,
                                          TensorsDict(images_tensor, masks_tensor),
                                          mode) # "none"
                     THEN NoLoader
                     ELSE LoaderOf(dataset, images_tensor, masks_tensor,
                                   implementation, pipeline, mode, config)]

(***************************************************************************)
(* MMSegDataset.evaluate                                                   *)
(***************************************************************************)
Str(x) == [kind |-> "str", v |-> x]
List(x) == [kind |-> "list", v |-> x]

Range(s) == {s[i] : i \in 1..Len(s)}

allowed_metrics == <<"mIoU", "mDice", "mFscore">>

\* The metric arguments tried: single names and lists, supported or not.
MetricArgs ==
    {Str("mIoU"), Str("mDice"), Str("mFscore"), Str("mAcc"),
     List(<<>>), List(<<"mIoU">>), List(<<"mDice">>), List(<<"mFscore">>),
     List(<<"mAcc">>), List(<<"mIoU", "mDice">>), List(<<"mFscore", "mIoU">>),
     List(<<"mDice", "mAcc">>), List(<<"mAcc", "mIoU">>),
     List(<<"mIoU", "mIoU">>), List(<<"mDice", "mIoU", "mFscore">>)}

ClassPool == <<"background", "road", "car", "tree">>

\* self.CLASSES: the first n names of the pool.
ClassLists == {SubSeq(ClassPool, 1, n) : n \in 0..MaxClasses}

\* results: one entry per evaluated sample, named by its position.
ResultLists == {[i \in 1..n |-> i] : n \in 0..MaxResults}

\* Per-class totals <<intersect, pred_label, label>> (union is
\* pred_label + label - intersect), one row per class:
\*   <<0, 0, 0>>             a class without any pixel, every metric NaN;
\*   <<23, 100, 160>>        the accuracy 23/160, no binary float, has a
\*                           percentage midway between two roundings;
\*   <<886, 1000, 1003>>     that of 886/1003 is 88.33499...: within
\*                           float32's error of the midpoint 88.335;
\*   <<1, 20, 32>>           1/32 is a binary float on a midpoint;
\*   <<5, 5, 5>>             a class predicted without error;
\*   <<31087, 31087, 65536>> 31087/65536 is a binary float whose percentage
\*                           47.43499... becomes 47.435 when float32
\*                           multiplies by 100.
AreaRows == << <<0, 0, 0>>, <<1, 2, 3>>, <<23, 100, 160>>, <<886, 1000, 1003>>,
               <<1, 20, 32>>, <<5, 5, 5>>, <<31087, 31087, 65536>> >>

\* The tables of n classes: n rows in a row, the last followed by the first.
AreaTables(n) ==
    {[c \in 1..n |-> AreaRows[((start + c - 2) % Len(AreaRows)) + 1]] :
        start \in 1..Len(AreaRows)}

\* The width of the arrays of the metric primitive: pre_eval_to_metrics
\* (line 250, results of pre_eval) works on float32 tensors,
\* eval_metrics (line 240, results that are arrays or file names) on
\* float64 ones.
FloatBits == {24, 53}

\* A slice that starts one entry late.
Stride_OffByOne(results, i, n) ==
    LET cnt == IF Len(results) > i + 1
               THEN (Len(results) - (i + 1) + n - 1) \div n ELSE 0
    IN  [k \in 1..cnt |-> results[(i + 1) + (k - 1) * n + 1]]

\* results[i :: n] with i counted from 0.
Stride(results, i, n) ==
    LET cnt == IF Len(results) > i THEN (Len(results) - i + n - 1) \div n ELSE 0
    IN  [k \in 1..cnt |-> results[i + (k - 1) * n + 1]]

RECURSIVE ReorderFrom(_, _, _)
ReorderFrom(results, i, n) ==
    IF i >= n THEN <<>>
    ELSE Stride(results, i, n) \o ReorderFrom(results, i + 1, n)

\* lines 222-226
Reorder(results, num_gpus) ==
    IF num_gpus > 1 THEN ReorderFrom(results, 0, num_gpus) ELSE results

\* lines 228-229
NormaliseMetric(metric) == IF metric.kind = "str" THEN <<metric.v>> ELSE metric.v

\* A check that looks at the first name only.
MetricsSupported_FirstOnly(names) ==
    names = <<>> \/ names[1] \in Range(allowed_metrics)

\* line 231: set(metric).issubset(set(allowed_metrics))
MetricsSupported(names) == Range(names) \subseteq Range(allowed_metrics)

\* The metric primitive (eval_metrics / pre_eval_to_metrics): the ordered
\* dictionary of the overall accuracy and the per-class vectors of each
\* requested metric.
RECURSIVE SumAreas(_, _)
SumAreas(areas, k) ==
    IF areas = <<>> THEN 0 ELSE Head(areas)[k] + SumAreas(Tail(areas), k)

IoU(a) == <<a[1], a[2] + a[3] - a[1]>>
Acc(a) == <<a[1], a[3]>>
Dice(a) == <<2 * a[1], a[2] + a[3]>>
Precision(a) == <<a[1], a[2]>>
Recall(a) == <<a[1], a[3]>>
Fscore(a) == IF a[1] = 0 THEN <<0, 0>> ELSE <<2 * a[1], a[2] + a[3]>>

ClassValue(name, a) ==
    CASE name = "IoU" -> IoU(a)
      [] name = "Acc" -> Acc(a)
      [] name = "Dice" -> Dice(a)
      [] name = "Precision" -> Precision(a)
      [] name = "Recall" -> Recall(a)
      [] name = "Fscore" -> Fscore(a)

PerClass(areas, name, bits) ==
    Vector([c \in 1..Len(areas) |-> ClassValue(name, areas[c])], bits)

RECURSIVE MetricsInto(_, _, _, _)
MetricsInto(od, areas, metrics, bits) ==
    IF metrics = <<>> THEN od
    ELSE LET m == Head(metrics)
             next ==
               IF m = "mIoU"
               THEN ODPut(ODPut(od, "IoU", PerClass(areas, "IoU", bits)),
                          "Acc", PerClass(areas, "Acc", bits))
               ELSE IF m = "mDice"
               THEN ODPut(ODPut(od, "Dice", PerClass(areas, "Dice", bits)),
                          "Acc", PerClass(areas, "Acc", bits))
               ELSE IF m = "mFscore"
               THEN ODPut(ODPut(ODPut(od, "Fscore", PerClass(areas, "Fscore", bits)),
                                "Precision", PerClass(areas, "Precision", bits)),
                          "Recall", PerClass(areas, "Recall", bits))
               ELSE od
         IN  MetricsInto(next, areas, Tail(metrics), bits)

total_area_to_metrics(areas, metrics, bits) ==
    MetricsInto(<<<<"aAcc", Scalar(<<SumAreas(areas, 1), SumAreas(areas, 3)>>, bits)>>>>,
                areas, metrics, bits)

\* The float of entry c of a metric, as the primitive computes it: the
\* quotient of two totals; the F-score from the floats of its precision and
\* recall, (1 + beta^2) * (precision * recall) / (beta^2 * precision +
\* recall) with beta = 1.
EntryFloat(ret_metrics, name, c) ==
    LET p == ODVal(ret_metrics, name).bits
        precision == FloatOfQuotient(p, ODVal(ret_metrics, "Precision").v[c])
        recall == FloatOfQuotient(p, ODVal(ret_metrics, "Recall").v[c])
    IN  IF name = "Fscore"
        THEN FDiv(p, FMul(p, FloatOf(p, 2), FMul(p, precision, recall)),
                     FAdd(p, FMul(p, FloatOf(p, 1), precision), recall))
        ELSE FloatOfQuotient(p, Entries(ODVal(ret_metrics, name))[c])

\* The roundings behind an entry times 100 times 100: the division and the
\* two products; for the F-score two divisions, a product, a sum, the
\* division and the two products.
EntryRoundings(name) == IF name = "Fscore" THEN 7 ELSE 3

\* The places of a metric that np.nanmean keeps.
KeptPlaces(ret_metrics, name) ==
    {c \in 1..Len(Entries(ODVal(ret_metrics, name))) :
        ~IsNaN(Entries(ODVal(ret_metrics, name))[c])}

\* np.nanmean as a float: NaN entries count as 0 in the sum, which is then
\* divided by the number of the others.
MeanFloat(ret_metrics, name) ==
    LET a == ODVal(ret_metrics, name)
        xs == [c \in 1..Len(Entries(a)) |->
                 IF IsNaN(Entries(a)[c]) THEN FloatOf(a.bits, 0)
                 ELSE EntryFloat(ret_metrics, name, c)]
    IN  FDiv(a.bits, pairwise_sum(a.bits, xs),
             FloatOf(a.bits, Cardinality(KeptPlaces(ret_metrics, name))))

\* The roundings behind a mean times 100 times 100: those of an entry, one
\* for every addition and one for the division by the count.
MeanRoundings(ret_metrics, name) ==
    EntryRoundings(name) + Len(Entries(ODVal(ret_metrics, name))) + 1

\* The width in which the mean, a numpy scalar, is multiplied by the
\* Python integer 100 and rounded: that of the scalar where the integer
\* adapts to it (NumPy 2), float64 where it is taken for an int64 (NumPy 1).
ScalarBits(bits, promoted) == IF promoted THEN 53 ELSE bits

\* lines 260-265
SummaryOf(ret_metrics, promoted) ==
    [i \in 1..Len(ret_metrics) |->
        <<ret_metrics[i][1],
          Round2Pct(NanMean(ret_metrics[i][2]),
                    MeanFloat(ret_metrics, ret_metrics[i][1]),
                    ret_metrics[i][2].bits,
                    ScalarBits(ret_metrics[i][2].bits, promoted),
                    MeanRoundings(ret_metrics, ret_metrics[i][1]))>>]

\* The first n entries of the array under name, each rounded.
RECURSIVE RoundEntries(_, _, _)
RoundEntries(ret_metrics, name, n) ==
    IF n = 0 THEN <<>>
    ELSE Append(RoundEntries(ret_metrics, name, n - 1),
                Round2Pct(Entries(ODVal(ret_metrics, name))[n],
                          EntryFloat(ret_metrics, name, n),
                          ODVal(ret_metrics, name).bits,
                          ODVal(ret_metrics, name).bits,
                          EntryRoundings(name)))

\* np.round(a * 100, 2), entry by entry, of the array under name.
RoundArray(ret_metrics, name) ==
    LET a == ODVal(ret_metrics, name)
        rounded == RoundEntries(ret_metrics, name, Len(Entries(a)))
    IN  IF a.dim = 0 THEN Scalar(rounded[1], a.bits) ELSE Vector(rounded, a.bits)

\* The arrays under the given names, each rounded.
RECURSIVE RoundArrays(_, _)
RoundArrays(ret_metrics, names) ==
    IF names = <<>> THEN <<>>
    ELSE <<<<Head(names), RoundArray(ret_metrics, Head(names))>>>>
         \o RoundArrays(ret_metrics, Tail(names))

\* lines 268-274: aAcc leaves ret_metrics itself, the rest is rounded.
ClassMetricsOf(ret_metrics) ==
    RoundArrays(ret_metrics, SelectSeq([i \in 1..Len(ret_metrics) |-> ret_metrics[i][1]],
                                       LAMBDA name : name # "aAcc"))

\* lines 284-288: the name of a summary column.
SummaryKey(key) == IF key = "aAcc" THEN key ELSE "m" \o key

\* lines 296-300
RECURSIVE PutSummary(_, _)
PutSummary(out, summary) ==
    IF summary = <<>> THEN out
    ELSE PutSummary(DictPut(out, SummaryKey(Head(summary)[1]),
                            Div100(Head(summary)[2])),
                    Tail(summary))

\* lines 304-309: one metric's entries, class by class.
RECURSIVE PutClasses(_, _, _, _, _)
PutClasses(out, key, value, class_names, idx) ==
    IF idx > Len(class_names) THEN out
    ELSE PutClasses(DictPut(out, key \o "." \o class_names[idx],
                            Div100(value.v[idx])),
                    key, value, class_names, idx + 1)

\* lines 302-309
RECURSIVE PutPerClass(_, _, _)
PutPerClass(out, class_metrics, class_names) ==
    IF class_metrics = <<>> THEN out
    ELSE PutPerClass(PutClasses(out, Head(class_metrics)[1],
                                Head(class_metrics)[2], class_names, 1),
                     Tail(class_metrics), class_names)

E_Init ==
    /\ e_pc = "start"
    /\ e_args \in [results : ResultLists, metric : MetricArgs]
    /\ e_self \in [num_gpus : 1..MaxGpus, CLASSES : ClassLists]
    /\ e_results = e_args.results
    /\ e_metric = e_args.metric
    /\ e_areas = <<>>
    /\ e_ret = <<>>
    /\ e_summary = <<>>
    /\ e_class = <<>>
    /\ e_log = <<>>
    /\ e_out = EmptyDict
    /\ e_err = "none"

\* lines 222-226: results of several GPUs are put back in order.
E_Reorder ==
    /\ e_pc = "start"
    /\ e_results' = Reorder(e_results, e_self.num_gpus)
    /\ e_pc' = "check"
    /\ UNCHANGED <<e_args, e_self, e_metric, e_areas, e_ret, e_summary,
                   e_class, e_log, e_out, e_err,
                   b_vars, t_vars, x_vars, s_vars>>

\* lines 228-232: the metric names are validated.
E_CheckMetric ==
    /\ e_pc = "check"
    /\ LET names == NormaliseMetric(e_metric)
       IN  /\ e_metric' = List(names)
           /\ IF MetricsSupported(names)
              THEN e_pc' = "compute" /\ e_err' = e_err
              ELSE e_pc' = "raised" /\ e_err' = "KeyError"
    /\ UNCHANGED <<e_args, e_self, e_results, e_areas, e_ret, e_summary,
                   e_class, e_log, e_out,
                   b_vars, t_vars, x_vars, s_vars>>

\* lines 234-251: the metric primitive is run on the results.
E_Compute ==
    /\ e_pc = "compute"
    /\ \E areas \in AreaTables(Len(e_self.CLASSES)), bits \in FloatBits :
          /\ e_areas' = areas
          /\ e_ret' = total_area_to_metrics(areas, e_metric.v, bits)
    /\ e_pc' = "aggregate"
    /\ UNCHANGED <<e_args, e_self, e_results, e_metric, e_summary, e_class,
                   e_log, e_out, e_err,
                   b_vars, t_vars, x_vars, s_vars>>

\* lines 253-276: the summary and the per-class tables.
E_Aggregate ==
    /\ e_pc = "aggregate"
    /\ \E promoted \in BOOLEAN : e_summary' = SummaryOf(e_ret, promoted)
    /\ e_class' = ODMoveFirst(ODPut(ClassMetricsOf(e_ret), "Class",
                                    e_self.CLASSES), "Class")
    /\ e_ret' = ODPop(e_ret, "aAcc")
    /\ e_pc' = "log"
    /\ UNCHANGED <<e_args, e_self, e_results, e_metric, e_areas, e_log,
                   e_out, e_err,
                   b_vars, t_vars, x_vars, s_vars>>

\* lines 278-293: both tables are logged.
E_Log ==
    /\ e_pc = "log"
    /\ e_log' = e_log \o
          << <<"per class results:">>,
             <<"class_table", e_class>>,
             <<"Summary:">>,
             <<"summary_table",
               [i \in 1..Len(e_summary) |->
                   <<SummaryKey(e_summary[i][1]), e_summary[i][2]>>]>> >>
    /\ e_pc' = "result"
    /\ UNCHANGED <<e_args, e_self, e_results, e_metric, e_areas, e_ret,
                   e_summary, e_class, e_out, e_err,
                   b_vars, t_vars, x_vars, s_vars>>

\* lines 295-311: the returned dictionary is filled.
E_Result ==
    /\ e_pc = "result"
    /\ e_class' = ODPop(e_class, "Class")
    /\ e_out' = PutPerClass(PutSummary(e_out, e_summary),
                            ODPop(e_class, "Class"), e_self.CLASSES)
    /\ e_pc' = "done"
    /\ UNCHANGED <<e_args, e_self, e_results, e_metric, e_areas, e_ret,
                   e_summary, e_log, e_err,
                   b_vars, t_vars, x_vars, s_vars>>

E_Idle ==
    /\ e_pc = "idle"
    /\ e_args = [results |-> <<>>, metric |-> List(<<>>)]
    /\ e_self = [num_gpus |-> 1, CLASSES |-> <<>>]
    /\ e_results = <<>>
    /\ e_metric = List(<<>>)
    /\ e_areas = <<>>
    /\ e_ret = <<>>
    /\ e_summary = <<>>
    /\ e_class = <<>>
    /\ e_log = <<>>
    /\ e_out = EmptyDict
    /\ e_err = "none"

(***************************************************************************)
(* A direct call of build_dataloader                                       *)
(***************************************************************************)
Pipelines ==
    {<<>>, <<"LoadImageFromFile", "LoadAnnotations", "Resize">>,
     <<"Resize", "Collect">>, <<"Resize", NoType>>}

\* The keyword arguments every caller in this file passes.
BaseLoaderConfig(dist) ==
    ("samples_per_gpu" :> 256) @@ ("workers_per_gpu" :> 1)
    @@ ("num_gpus" :> 1) @@ ("dist" :> dist)

\* What a user adds through cfg: nothing, or settings of his own.
UserLoaderConfigs ==
    {EmptyDict,
     ("shuffle" :> FALSE),
     ("persistent_workers" :> TRUE),
     ("batch_size" :> 4) @@ ("num_workers" :> 2),
     ("batch_size" :> None),
     ("num_workers" :> None)}

SegmentTensors(ds) ==
    {ds.tensors[i].name : i \in {j \in 1..Len(ds.tensors) :
                                    ds.tensors[j].htype = "segment_mask"}}

BuildCalls ==
    UNION {{[dataset |-> ds, images_tensor |-> it,
             masks_tensor |-> mt, implementation |-> impl, pipeline |-> pl,
             mode |-> md, config |-> DictMerge(BaseLoaderConfig(dist), user)] :
               it \in {find_tensor_with_htype(ds, "image"), None, "images"},
               mt \in {None, "masks", "val_masks"},
               impl \in {"python", "c++"},
               pl \in Pipelines,
               md \in {"train", "val"},
               dist \in BOOLEAN,
               user \in UserLoaderConfigs} :
           ds \in {DsTrainArg, DsValArg}}

NoResult == [err |-> "none", log |-> <<>>, loader |-> NoLoader]

B_Init ==
    /\ b_pc = "call"
    /\ b_args \in BuildCalls
    /\ b_res = NoResult

B_Idle ==
    /\ b_pc = "idle"
    /\ b_args = [dataset |-> NoDataset, images_tensor |-> None,
                 masks_tensor |-> None, implementation |-> None,
                 pipeline |-> <<>>, mode |-> None, config |-> EmptyDict]
    /\ b_res = NoResult

\* lines 685-799: the whole call.
B_Call ==
    /\ b_pc = "call"
    /\ b_res' = build_dataloader(b_args.dataset, b_args.images_tensor,
                                 b_args.masks_tensor, b_args.implementation,
                                 b_args.pipeline, b_args.mode, b_args.config)
    /\ b_pc' = IF b_res'.err = "none" THEN "returned" ELSE "raised"
    /\ UNCHANGED <<b_args, e_vars, t_vars, x_vars, s_vars>>

(***************************************************************************)
(* _train_segmentor                                                        *)
(***************************************************************************)
FullMapping(img, seg) == Mapping(("img" :> img) @@ ("gt_semantic_seg" :> seg))
ImgOnlyMapping(img) == Mapping("img" :> img)
EmptyMapping == Mapping(EmptyDict)

TrainPath == "hub://org/train"
ValPath == "hub://org/val"

\* The train split of a call: the dataset and the mapping passed as
\* arguments, and what cfg.data.train holds.  Without a dataset argument
\* cfg.data.train names the dataset.
TrainSplits ==
    {[ds_train |-> DsTrainArg, ds_train_tensors |-> mp, deeplake_path |-> Absent,
      deeplake_tensors |-> NoMapping, deeplake_dataloader |-> EmptyDict] :
        mp \in {NoMapping, EmptyMapping, FullMapping("images", "masks"),
                ImgOnlyMapping("images")}}
    \cup
    {[ds_train |-> DsTrainArg, ds_train_tensors |-> mp, deeplake_path |-> TrainPath,
      deeplake_tensors |-> FullMapping("images", "labels"),
      deeplake_dataloader |-> EmptyDict] :
        mp \in {NoMapping, EmptyMapping, FullMapping("images", "masks"),
                ImgOnlyMapping("images")}}
    \cup
    {[ds_train |-> DsTrainArg, ds_train_tensors |-> FullMapping("images", "masks"),
      deeplake_path |-> "", deeplake_tensors |-> NoMapping,
      deeplake_dataloader |-> EmptyDict]}
    \cup
    {[ds_train |-> NoDataset, ds_train_tensors |-> NoMapping, deeplake_path |-> TrainPath,
      deeplake_tensors |-> mp, deeplake_dataloader |-> EmptyDict] :
        mp \in {NoMapping, FullMapping("images", "labels")}}
    \cup
    {[ds_train |-> DsTrainArg, ds_train_tensors |-> FullMapping("images", "masks"),
      deeplake_path |-> Absent, deeplake_tensors |-> NoMapping,
      deeplake_dataloader |-> "dist" :> FALSE]}

GpuIds(distributed) == IF distributed THEN <<0, 1>> ELSE <<0>>

\* What cfg says about the labels: nothing, or values of its own.
CfgLabelSettings ==
    {EmptyDict,
     ("ignore_index" :> 0),
     ("reduce_zero_label" :> TRUE),
     ("ignore_index" :> 0) @@ ("reduce_zero_label" :> TRUE)}

\* lines 425-426
CfgIgnoreIndexDefault == 255

IgnoreIndex(args) == DictGet(args.labels, "ignore_index", CfgIgnoreIndexDefault)

ReduceZeroLabel(args) == DictGet(args.labels, "reduce_zero_label", FALSE)

FreePort == "port"

\* The calls tried.  cfg.data.train_dataloader is empty in most of them; in
\* the rest it sets dist itself, against the distributed argument or with
\* it, and cfg.data.train.deeplake_dataloader may set it once more.
TrainCalls ==
    {[split |-> sp, distributed |-> d, local_rank |-> r, validate |-> v,
      runner_type |-> rt, gpu_ids |-> GpuIds(d),
      port |-> IF d THEN FreePort ELSE None, train_dataloader |-> EmptyDict,
      labels |-> lb] :
        sp \in TrainSplits,
        lb \in CfgLabelSettings,
        d \in BOOLEAN,
        r \in 0..1,
        v \in BOOLEAN,
        rt \in {"EpochBasedRunner", "IterBasedRunner"}}
    \cup
    {[split |-> sp, distributed |-> d, local_rank |-> 0, validate |-> v,
      runner_type |-> "EpochBasedRunner", gpu_ids |-> GpuIds(d),
      port |-> IF d THEN FreePort ELSE None, train_dataloader |-> "dist" :> td,
      labels |-> EmptyDict] :
        sp \in {x \in TrainSplits :
                  /\ x.ds_train_tensors = FullMapping("images", "masks")
                  /\ x.deeplake_path = Absent},
        d \in BOOLEAN,
        v \in BOOLEAN,
        td \in BOOLEAN}

\* cfg.deeplake_dataloader_type, character by character; the key may be
\* absent.
Flag(chars) == [present |-> TRUE, chars |-> chars]
FlagAbsent == [present |-> FALSE, chars |-> <<>>]

Flags ==
    {FlagAbsent,
     Flag(<<"A", "u", "t", "o">>),
     Flag(<<"c", "+", "+">>),
     Flag(<<"C", "P", "P">>),
     Flag(<<"P", "y", "t", "h", "o", "n">>),
     Flag(<<"t", "o", "r", "c", "h">>)}

\* str.lower on one character.
LowerChar(c) ==
    CASE c = "A" -> "a" [] c = "U" -> "u" [] c = "T" -> "t" [] c = "O" -> "o"
      [] c = "C" -> "c" [] c = "P" -> "p" [] c = "Y" -> "y" [] c = "H" -> "h"
      [] c = "N" -> "n" [] c = "R" -> "r"
      [] OTHER -> c

\* A lower() that leaves the string as it is.
Lower_Identity(chars) == chars

\* str.lower
Lower(chars) == [i \in 1..Len(chars) |-> LowerChar(chars[i])]

AUTO == <<"a", "u", "t", "o">>
CXX == <<"c", "+", "+">>
CPP == <<"c", "p", "p">>
PYTHON == <<"p", "y", "t", "h", "o", "n">>

\* line 439: cfg.get("deeplake_dataloader_type", "auto").lower()
FlagValue(flag) == Lower(IF flag.present THEN flag.chars ELSE AUTO)

\* lines 442-445, with indra_available() consulted for "auto" only.
NeedsIndra(flag) == FlagValue(flag) = AUTO

ResolveImpl(flag, indra) ==
    IF FlagValue(flag) = AUTO THEN (IF indra THEN CXX ELSE PYTHON)
    ELSE IF FlagValue(flag) = CPP THEN CXX
    ELSE FlagValue(flag)

\* line 447
ImplValid(dl_impl) == dl_impl \in {CXX, PYTHON}

ImplName(dl_impl) == IF dl_impl = CXX THEN "c++" ELSE "python"

\* The validation split: the arguments ds_val and ds_val_tensors and what
\* cfg.data.val holds (the entry itself may be absent).
ValSplit(ds, mp, present, path, cfgmp, loader_cfg) ==
    [read |-> TRUE, ds_val |-> ds, ds_val_tensors |-> mp, present |-> present,
     deeplake_path |-> path, deeplake_tensors |-> cfgmp,
     deeplake_dataloader |-> loader_cfg]

UnreadVal ==
    [read |-> FALSE, ds_val |-> NoDataset, ds_val_tensors |-> NoMapping,
     present |-> FALSE, deeplake_path |-> Absent, deeplake_tensors |-> NoMapping,
     deeplake_dataloader |-> EmptyDict]

ValSplits ==
    {ValSplit(NoDataset, NoMapping, FALSE, Absent, NoMapping, EmptyDict),
     ValSplit(NoDataset, NoMapping, TRUE, Absent, NoMapping, EmptyDict),
     ValSplit(NoDataset, NoMapping, TRUE, ValPath, NoMapping, EmptyDict),
     ValSplit(NoDataset, NoMapping, TRUE, ValPath,
              FullMapping("val_images", "val_labels"), EmptyDict),
     ValSplit(NoDataset, NoMapping, TRUE, ValPath, NoMapping, "shuffle" :> TRUE),
     ValSplit(DsValArg, FullMapping("val_images", "val_masks"), FALSE, Absent,
              NoMapping, EmptyDict),
     ValSplit(NoDataset, NoMapping, TRUE, None, NoMapping, EmptyDict),
     ValSplit(DsValArg, FullMapping("val_images", "val_masks"), TRUE, None,
              NoMapping, EmptyDict),
     ValSplit(DsValArg, FullMapping("images", "val_masks"), TRUE, Absent,
              NoMapping, EmptyDict)}
    \cup
    {ValSplit(DsValArg, mp, TRUE, Absent, NoMapping, EmptyDict) :
        mp \in {NoMapping, EmptyMapping, FullMapping("val_images", "val_masks")}}
    \cup
    {ValSplit(DsValArg, mp, TRUE, ValPath,
              FullMapping("val_images", "val_labels"), EmptyDict) :
        mp \in {NoMapping, EmptyMapping, FullMapping("val_images", "val_masks")}}

\* cfg.custom_hooks: each hook has a type and, maybe, a priority.
Hook(type, priority) == [type |-> type, priority |-> priority]

\* An entry of cfg.custom_hooks that is no dict.
NotADict == Hook("<not a dict>", Absent)

CustomHookLists ==
    {<<>>,
     <<Hook("EMAHook", Absent)>>,
     <<Hook("CheckInvalidLossHook", "VERY_LOW"), Hook("EMAHook", Absent)>>,
     <<Hook("EMAHook", Absent), NotADict>>}

ExplicitCheckpoint == "work_dir/epoch_3.pth"
LatestCheckpoint == "work_dir/latest.pth"
PretrainedCheckpoint == "pretrained.pth"

\* Python truth of a string-or-None (a missing entry reads as None).
Truthy(x) == x \notin {None, Absent, ""}

UnreadCfg ==
    [flag |-> FlagAbsent, indra |-> "uncalled", collect_keys |-> "unread",
     val |-> UnreadVal, custom_imports |-> None,
     optimizer_config_type |-> "unread",
     custom_hooks |-> <<>>, custom_hooks_type |-> "unread", HOOKS |-> "unread",
     resume_from |-> None, auto_resume |-> FALSE, latest |-> "uncalled",
     load_from |-> None, runner_type |-> None, workflow |-> "workflow",
     train_pipeline |-> <<>>, test_pipeline |-> <<>>]

NoLocals ==
    [ds_train |-> NoDataset, ds_train_tensors |-> NoMapping, dl_impl |-> None,
     train_images_tensor |-> None, train_masks_tensor |-> None,
     train_loader_cfg |-> EmptyDict, data_loader |-> NoLoader,
     ds_val |-> NoDataset, ds_val_tensors |-> NoMapping,
     val_dataloader_args |-> EmptyDict,
     val_images_tensor |-> None, val_masks_tensor |-> None,
     val_dataloader |-> NoLoader, runner_timestamp |-> None,
     cfg_resume_from |-> None]

T_Init ==
    /\ t_pc = "start"
    /\ t_args \in TrainCalls
    /\ t_args.local_rank < Len(t_args.gpu_ids)
    /\ t_cfg = [UnreadCfg EXCEPT !.runner_type = t_args.runner_type]
    /\ t_loc = NoLocals
    /\ t_log = <<>>
    /\ t_err = "none"

T_Idle ==
    /\ t_pc = "idle"
    /\ t_args = [split |-> [ds_train |-> NoDataset, ds_train_tensors |-> NoMapping,
                            deeplake_path |-> Absent, deeplake_tensors |-> NoMapping,
                            deeplake_dataloader |-> EmptyDict],
                 distributed |-> FALSE, local_rank |-> 0, validate |-> FALSE,
                 runner_type |-> None, gpu_ids |-> <<0>>, port |-> None,
                 train_dataloader |-> EmptyDict, labels |-> EmptyDict]
    /\ t_cfg = UnreadCfg
    /\ t_loc = NoLocals
    /\ t_log = <<>>
    /\ t_err = "none"

Raise(error) == t_pc' = "raised" /\ t_err' = error

DatasetWarning(split) == <<"always_warn", "dataset in cfg and in arguments", split>>

\* lines 422-436: the training dataset is the argument, or is loaded from cfg.
T_LoadTrain ==
    /\ t_pc = "start"
    /\ IF t_args.split.ds_train.id = None
       THEN /\ t_loc' = [t_loc EXCEPT
                  !.ds_train = DsTrainCfg,
                  !.ds_train_tensors =
                      IF t_args.split.deeplake_tensors.kind = "none"
                      THEN EmptyMapping ELSE t_args.split.deeplake_tensors]
            /\ t_log' = Append(t_log, <<"load_ds_from_cfg", "train">>)
       ELSE /\ t_loc' = [t_loc EXCEPT
                  !.ds_train = t_args.split.ds_train,
                  !.ds_train_tensors = t_args.split.ds_train_tensors]
            /\ t_log' = IF Truthy(t_args.split.deeplake_path)
                        THEN Append(t_log, DatasetWarning("train")) ELSE t_log
    /\ t_pc' = "select"
    /\ UNCHANGED <<t_args, t_cfg, t_err, e_vars, b_vars, x_vars, s_vars>>

\* lines 438-450: the loader implementation is chosen from the flag.
T_SelectLoader ==
    /\ t_pc = "select"
    /\ \E flag \in Flags, indra \in BOOLEAN :
         /\ NeedsIndra(flag) \/ indra
         /\ t_cfg' = [t_cfg EXCEPT
                !.flag = flag,
                !.indra = IF ~NeedsIndra(flag) THEN "uncalled"
                          ELSE IF indra THEN "True" ELSE "False"]
         /\ IF ImplValid(ResolveImpl(flag, indra))
            THEN /\ t_loc' = [t_loc EXCEPT
                       !.dl_impl = ImplName(ResolveImpl(flag, indra))]
                 /\ t_pc' = "tensors"
                 /\ t_err' = t_err
            ELSE /\ Raise("ValueError")
                 /\ t_loc' = t_loc
    /\ UNCHANGED <<t_args, t_log, e_vars, b_vars, x_vars, s_vars>>

\* get_collect_keys(cfg) is asked once per split that has no tensor mapping;
\* it answers from cfg, so it answers the same both times.
CollectAnswers(cfg, mapped) ==
    IF mapped THEN {cfg.collect_keys}
    ELSE IF cfg.collect_keys = "unread"
    THEN {"with gt_semantic_seg", "without gt_semantic_seg"}
    ELSE {cfg.collect_keys}

\* lines 452-464 and 616-626: the tensors of a split that has no mapping.
MaskByHtype(ds, collect_keys) ==
    IF collect_keys = "with gt_semantic_seg"
    THEN find_tensor_with_htype(ds, "segment_mask") ELSE None

\* lines 452-466: the train tensors, and the class names of the model.
T_TrainTensors ==
    /\ t_pc = "tensors"
    /\ \E keys \in CollectAnswers(t_cfg, MappingTruthy(t_loc.ds_train_tensors)) :
         LET mapped == MappingTruthy(t_loc.ds_train_tensors)
             images == IF mapped THEN t_loc.ds_train_tensors.d["img"]
                       ELSE find_tensor_with_htype(t_loc.ds_train, "image")
             masks == IF mapped
                      THEN DictGet(t_loc.ds_train_tensors.d, "gt_semantic_seg", None)
                      ELSE MaskByHtype(t_loc.ds_train, keys)
             seen == IF mapped THEN <<>>
                     ELSE << <<"find_tensor_with_htype", "train", "image">> >>
                          \o (IF keys = "with gt_semantic_seg"
                              THEN << <<"find_tensor_with_htype", "train", "segment_mask">> >>
                              ELSE <<>>)
         IN  /\ t_cfg' = IF mapped THEN t_cfg ELSE [t_cfg EXCEPT !.collect_keys = keys]
             /\ t_loc' = [t_loc EXCEPT !.train_images_tensor = images,
                                       !.train_masks_tensor = masks]
             /\ IF LookupError(t_loc.ds_train, masks) # "none"
                THEN /\ Raise(LookupError(t_loc.ds_train, masks))
                     /\ t_log' = t_log \o seen
                ELSE /\ t_log' = (t_log \o seen) \o << <<"model.CLASSES", masks>> >>
                     /\ t_pc' = "wrap"
                     /\ t_err' = t_err
    /\ UNCHANGED <<t_args, e_vars, b_vars, x_vars, s_vars>>

\* lines 471-487: the defaults, then cfg.data.train_dataloader, then
\* cfg.data.train.deeplake_dataloader.
TrainLoaderCfg(args) ==
    DictMerge(
        DictMerge(
            ("samples_per_gpu" :> 256) @@ ("workers_per_gpu" :> 1)
            @@ ("num_gpus" :> Len(args.gpu_ids)) @@ ("dist" :> args.distributed)
            @@ ("seed" :> None) @@ ("runner_type" :> args.runner_type)
            @@ ("ignore_index" :> IgnoreIndex(args))
            @@ ("reduce_zero_label" :> ReduceZeroLabel(args)),
            args.train_dataloader),
        args.split.deeplake_dataloader)

\* lines 489-509: the model is wrapped for its devices.
WrapEvents(args) ==
    IF args.distributed
    THEN << <<"force_cudnn_initialization", args.gpu_ids[args.local_rank + 1]>>,
            <<"ddp_setup", args.local_rank, Len(args.gpu_ids), args.port>>,
            <<"build_ddp", args.gpu_ids[args.local_rank + 1]>> >>
    ELSE << <<"build_dp", args.gpu_ids>> >>

\* lines 468-509
T_WrapModel ==
    /\ t_pc = "wrap"
    /\ t_loc' = [t_loc EXCEPT !.train_loader_cfg = TrainLoaderCfg(t_args)]
    /\ t_log' = (t_log \o << <<"get_root_logger">> >>) \o WrapEvents(t_args)
    /\ t_pc' = "train_loader"
    /\ UNCHANGED <<t_args, t_cfg, t_err, e_vars, b_vars, x_vars, s_vars>>

\* cfg.train_pipeline and cfg.test_pipeline: a list of steps that name their
\* type, or one with a step that has no 'type'.
TrainPipeline == <<"LoadImageFromFile", "LoadAnnotations", "Resize", "Collect">>
TestPipeline == <<"LoadImageFromFile", "Resize", "Collect">>
UntypedPipeline == <<"Resize", NoType>>

CallEvent(split, ds, images, masks, impl, mode) ==
    <<"build_dataloader", split, ds.id, images, masks, impl, mode>>

\* lines 511-518: the train loader.
T_BuildTrainLoader ==
    /\ t_pc = "train_loader"
    /\ \E pipeline \in {TrainPipeline, UntypedPipeline} :
       LET res == build_dataloader(t_loc.ds_train, t_loc.train_images_tensor,
                                   t_loc.train_masks_tensor, t_loc.dl_impl,
                                   pipeline, "train", t_loc.train_loader_cfg)
       IN  /\ t_cfg' = [t_cfg EXCEPT !.train_pipeline = pipeline]
           /\ t_log' = Append(t_log, CallEvent("train", t_loc.ds_train,
                                     t_loc.train_images_tensor,
                                     t_loc.train_masks_tensor, t_loc.dl_impl, "train"))
                       \o res.log
           /\ IF res.err # "none"
              THEN Raise(res.err) /\ t_loc' = t_loc
              ELSE /\ t_loc' = [t_loc EXCEPT !.data_loader = res.loader]
                   /\ t_pc' = "runner"
                   /\ t_err' = t_err
    /\ UNCHANGED <<t_args, e_vars, b_vars, x_vars, s_vars>>

\* lines 528-531
DeeplakeRunner(type) ==
    IF type = "IterBasedRunner" THEN "DeeplakeIterBasedRunner"
    ELSE IF type = "EpochBasedRunner" THEN "DeeplakeEpochBasedRunner"
    ELSE type

\* cfg.optimizer_config["type"]: absent, or the hook the user names.
OptimizerConfigTypes == {Absent, "Fp16OptimizerHook"}

\* line 548: an OptimizerHook is built of cfg.optimizer_config for a
\* distributed run whose optimizer_config names no type of its own.
BuildsOptimizerHook(distributed, optimizer_config_type) ==
    distributed /\ optimizer_config_type = Absent

\* lines 520-551: optimizer and runner.  cfg.custom_imports is set to the
\* import of the Deep Lake runners, the runner gets the timestamp argument,
\* and the type of cfg.optimizer_config is looked at in a distributed run
\* only.
T_BuildRunner ==
    /\ t_pc = "runner"
    /\ \E type \in IF t_args.distributed THEN OptimizerConfigTypes ELSE {"unread"} :
         /\ t_cfg' = [t_cfg EXCEPT
                !.custom_imports = "deeplake.integrations.mmdet.mmdet_runners",
                !.runner_type = DeeplakeRunner(t_cfg.runner_type),
                !.optimizer_config_type = type]
         /\ t_loc' = [t_loc EXCEPT !.runner_timestamp = "timestamp"]
         /\ t_log' = t_log \o
              << <<"build_optimizer">>,
                 <<"build_runner", DeeplakeRunner(t_cfg.runner_type)>> >>
              \o (IF BuildsOptimizerHook(t_args.distributed, type)
                  THEN << <<"OptimizerHook">> >> ELSE <<>>)
    /\ t_pc' = "hooks"
    /\ UNCHANGED <<t_args, t_err, e_vars, b_vars, x_vars, s_vars>>

\* line 563: isinstance(runner, EpochBasedRunner)
IsEpochBased(runner_type) == runner_type = "DeeplakeEpochBasedRunner"

\* A seed hook registered for every distributed runner.
SeedHookEvents_Always(distributed, runner_type) ==
    IF distributed
    THEN << <<"register_hook", "DistSamplerSeedHook", "unspecified">> >>
    ELSE <<>>

\* lines 562-564
SeedHookEvents(distributed, runner_type) ==
    IF distributed /\ IsEpochBased(runner_type)
    THEN << <<"register_hook", "DistSamplerSeedHook", "unspecified">> >>
    ELSE <<>>

\* lines 553-564: the training hooks.
T_RegisterHooks ==
    /\ t_pc = "hooks"
    /\ t_log' = (t_log \o << <<"register_training_hooks">> >>)
                \o SeedHookEvents(t_args.distributed, t_cfg.runner_type)
    /\ t_pc' = IF t_args.validate THEN "val_args" ELSE "custom_hooks"
    /\ UNCHANGED <<t_args, t_cfg, t_loc, t_err, e_vars, b_vars, x_vars, s_vars>>

\* lines 568-582: the defaults come last and win over the user's entries.
ValLoaderArgs(args, user) ==
    DictMerge(user,
        ("samples_per_gpu" :> 256) @@ ("workers_per_gpu" :> 1)
        @@ ("dist" :> args.distributed) @@ ("shuffle" :> FALSE)
        @@ ("mode" :> "val") @@ ("num_gpus" :> Len(args.gpu_ids))
        @@ ("ignore_index" :> IgnoreIndex(args))
        @@ ("reduce_zero_label" :> ReduceZeroLabel(args)))

\* lines 567-589: the arguments of the validation loader.  Reading
\* cfg.data.val of a cfg without that entry raises AttributeError.
T_ValArgs ==
    /\ t_pc = "val_args"
    /\ \E val \in ValSplits :
         /\ t_cfg' = [t_cfg EXCEPT !.val = val]
         /\ IF ~val.present
            THEN /\ Raise("AttributeError")
                 /\ UNCHANGED <<t_loc, t_log>>
            ELSE LET va == ValLoaderArgs(t_args, val.deeplake_dataloader)
                 IN  /\ t_loc' = [t_loc EXCEPT !.val_dataloader_args = va]
                     /\ t_log' = Append(t_log, <<"check_persistent_workers",
                            DictGet(t_loc.train_loader_cfg, "persistent_workers", FALSE),
                            DictGet(va, "persistent_workers", FALSE)>>)
                          \o (IF DictGet(va, "shuffle", FALSE)
                              THEN << <<"always_warn", "shuffle ignored">> >>
                              ELSE <<>>)
                     /\ t_pc' = "val_dataset"
                     /\ t_err' = t_err
    /\ UNCHANGED <<t_args, e_vars, b_vars, x_vars, s_vars>>

ValidationMissing == "Exception: Validation dataset is not specified"

\* lines 591-614: the validation dataset is the argument, or is loaded from
\* cfg.  Both tests of cfg.data.val.get("deeplake_path") are against None,
\* which a missing key and a key set to None give alike.  load_ds_from_cfg
\* returns the dataset it loaded, here as for the train split (line 432), so
\* the test of line 611 finds a dataset whenever it is reached.
T_ValDataset ==
    /\ t_pc = "val_dataset"
    /\ IF t_cfg.val.ds_val.id = None
       THEN IF ~t_cfg.val.present \/ t_cfg.val.deeplake_path \in {Absent, None}
            THEN /\ Raise(ValidationMissing)
                 /\ UNCHANGED <<t_loc, t_log>>
            ELSE /\ t_loc' = [t_loc EXCEPT
                       !.ds_val = DsValCfg,
                       !.ds_val_tensors =
                           IF t_cfg.val.deeplake_tensors.kind = "none"
                           THEN EmptyMapping ELSE t_cfg.val.deeplake_tensors]
                 /\ t_log' = Append(t_log, <<"load_ds_from_cfg", "val">>)
                 /\ t_pc' = "val_tensors"
                 /\ t_err' = t_err
       ELSE /\ t_loc' = [t_loc EXCEPT !.ds_val = t_cfg.val.ds_val,
                                      !.ds_val_tensors = t_cfg.val.ds_val_tensors]
            /\ t_log' = IF t_cfg.val.deeplake_path \notin {Absent, None}
                        THEN Append(t_log, DatasetWarning("val")) ELSE t_log
            /\ t_pc' = "val_tensors"
            /\ t_err' = t_err
    /\ UNCHANGED <<t_args, t_cfg, e_vars, b_vars, x_vars, s_vars>>

\* line 618: the masks tensor of the validation split is read from
\* ds_train_tensors.
ValMasksFromMapping(ds_train_tensors, ds_val_tensors) ==
    DictGet(ds_train_tensors.d, "gt_semantic_seg", None)

\* lines 616-626: the validation tensors.
T_ValTensors ==
    /\ t_pc = "val_tensors"
    /\ \E keys \in CollectAnswers(t_cfg, MappingTruthy(t_loc.ds_val_tensors)) :
         LET mapped == MappingTruthy(t_loc.ds_val_tensors) IN
         /\ IF mapped
            THEN IF t_loc.ds_train_tensors.kind = "none"
                 THEN /\ Raise("AttributeError")
                      /\ t_loc' = [t_loc EXCEPT
                             !.val_images_tensor = t_loc.ds_val_tensors.d["img"]]
                      /\ UNCHANGED <<t_cfg, t_log>>
                 ELSE /\ t_loc' = [t_loc EXCEPT
                             !.val_images_tensor = t_loc.ds_val_tensors.d["img"],
                             !.val_masks_tensor =
                                 ValMasksFromMapping(t_loc.ds_train_tensors,
                                                     t_loc.ds_val_tensors)]
                      /\ t_pc' = "val_loader"
                      /\ UNCHANGED <<t_cfg, t_log, t_err>>
            ELSE /\ t_cfg' = [t_cfg EXCEPT !.collect_keys = keys]
                 /\ t_loc' = [t_loc EXCEPT
                        !.val_images_tensor = find_tensor_with_htype(t_loc.ds_val, "image"),
                        !.val_masks_tensor = MaskByHtype(t_loc.ds_val, keys)]
                 /\ t_log' = (Append(t_log, <<"find_tensor_with_htype", "val", "image">>))
                      \o (IF keys = "with gt_semantic_seg"
                          THEN << <<"find_tensor_with_htype", "val", "segment_mask">> >>
                          ELSE <<>>)
                 /\ t_pc' = "val_loader"
                 /\ t_err' = t_err
    /\ UNCHANGED <<t_args, e_vars, b_vars, x_vars, s_vars>>

\* An evaluation hook that is never the distributed one.
EvalHookClass_Plain(distributed) == "EvalHook"

\* lines 639-641
EvalHookClass(distributed) == IF distributed THEN "DistEvalHook" ELSE "EvalHook"

\* lines 628-644: the validation loader and the evaluation hook.
T_BuildValLoader ==
    /\ t_pc = "val_loader"
    /\ \E pipeline \in {TestPipeline, UntypedPipeline} :
       LET res == build_dataloader(t_loc.ds_val, t_loc.val_images_tensor,
                                   t_loc.val_masks_tensor, t_loc.dl_impl,
                                   pipeline, t_loc.val_dataloader_args["mode"],
                                   DictWithout(t_loc.val_dataloader_args, "mode"))
       IN  /\ t_cfg' = [t_cfg EXCEPT !.test_pipeline = pipeline]
           /\ IF res.err # "none"
              THEN /\ Raise(res.err)
                   /\ t_loc' = t_loc
                   /\ t_log' = Append(t_log, CallEvent("val", t_loc.ds_val,
                                      t_loc.val_images_tensor, t_loc.val_masks_tensor,
                                      t_loc.dl_impl, "val"))
                               \o res.log
              ELSE /\ t_loc' = [t_loc EXCEPT !.val_dataloader = res.loader]
                   /\ t_log' = (Append(t_log, CallEvent("val", t_loc.ds_val,
                                       t_loc.val_images_tensor, t_loc.val_masks_tensor,
                                       t_loc.dl_impl, "val"))
                                \o res.log)
                               \o << <<"eval_cfg", "by_epoch",
                                       t_cfg.runner_type # "DeeplakeIterBasedRunner">>,
                                     <<"register_hook",
                                       EvalHookClass(t_args.distributed), "LOW">> >>
                   /\ t_pc' = "custom_hooks"
                   /\ t_err' = t_err
    /\ UNCHANGED <<t_args, e_vars, b_vars, x_vars, s_vars>>

\* Hooks registered last to first.
RECURSIVE CustomHookEvents_Reversed(_)
CustomHookEvents_Reversed(hooks) ==
    IF hooks = <<>> THEN <<>>
    ELSE Append(CustomHookEvents_Reversed(Tail(hooks)),
                <<"register_hook", Head(hooks).type,
                  IF Head(hooks).priority = Absent THEN "NORMAL"
                  ELSE Head(hooks).priority>>)

\* lines 652-660: one register_hook per configured hook, in order.
RECURSIVE CustomHookEvents(_)
CustomHookEvents(hooks) ==
    IF hooks = <<>> THEN <<>>
    ELSE << <<"register_hook", Head(hooks).type,
              IF Head(hooks).priority = Absent THEN "NORMAL"
              ELSE Head(hooks).priority>> >>
         \o CustomHookEvents(Tail(hooks))

\* The entries in front of the first one that is no dict.
RECURSIVE DictPrefix(_)
DictPrefix(hooks) ==
    IF hooks = <<>> \/ Head(hooks) = NotADict THEN <<>>
    ELSE <<Head(hooks)>> \o DictPrefix(Tail(hooks))

\* line 659 evaluates the name HOOKS, which this file imports from nowhere
\* by name: it is bound only if the star import of line 44 brings it, and
\* evaluating it raises NameError otherwise.  The registry is looked up when
\* the loop reaches a first entry that is a dict.
RegistryStates(hooks, type) ==
    IF hooks # <<>> /\ type = "list" /\ Head(hooks) # NotADict
    THEN {"bound", "unbound"} ELSE {"unread"}

\* lines 647-660: how the step ends.  An empty custom_hooks is skipped; one
\* that is no list fails the assertion of line 649; in the loop an entry
\* that is no dict fails the assertion of line 653 and an unbound HOOKS
\* raises NameError at the first entry.
CustomHooksError(hooks, type, registry) ==
    IF hooks = <<>> THEN "none"
    ELSE IF type # "list" THEN "AssertionError"
    ELSE IF Head(hooks) = NotADict THEN "AssertionError"
    ELSE IF registry = "unbound" THEN "NameError"
    ELSE IF DictPrefix(hooks) # hooks THEN "AssertionError"
    ELSE "none"

\* lines 652-660: the hooks registered before the step ends.
CustomHooksRegistered(hooks, type, registry) ==
    IF type = "list" /\ registry = "bound"
    THEN CustomHookEvents(DictPrefix(hooks)) ELSE <<>>

\* lines 646-660: the user's hooks.
T_CustomHooks ==
    /\ t_pc = "custom_hooks"
    /\ \E hooks \in CustomHookLists,
          type \in {"list", "tuple"} :
       \E registry \in RegistryStates(hooks, type) :
         /\ type = "tuple" => hooks = <<Hook("EMAHook", Absent)>>
         /\ t_cfg' = [t_cfg EXCEPT !.custom_hooks = hooks,
                                   !.custom_hooks_type = type,
                                   !.HOOKS = registry]
         /\ t_log' = t_log \o CustomHooksRegistered(hooks, type, registry)
         /\ IF CustomHooksError(hooks, type, registry) = "none"
            THEN t_pc' = "checkpoint" /\ t_err' = t_err
            ELSE Raise(CustomHooksError(hooks, type, registry))
    /\ UNCHANGED <<t_args, t_loc, e_vars, b_vars, x_vars, s_vars>>

\* An auto-resume that does not look at cfg.resume_from.
AsksLatest_IgnoresExplicit(resume_from, auto_resume) == auto_resume

\* line 663: find_latest_checkpoint is asked only without a resume_from and
\* with auto_resume.
AsksLatest(resume_from, auto_resume) == resume_from = None /\ auto_resume

\* lines 662-666: cfg.resume_from after the auto-resume lookup.
ResumeTarget(resume_from, auto_resume, latest) ==
    IF AsksLatest(resume_from, auto_resume) /\ latest \notin {None, "uncalled"}
    THEN latest ELSE resume_from

\* A checkpoint step that loads before it looks at resume_from.
CheckpointEvents_LoadFirst(resume_from, load_from) ==
    IF Truthy(load_from) THEN << <<"load_checkpoint", load_from>> >>
    ELSE IF Truthy(resume_from) THEN << <<"resume", resume_from>> >>
    ELSE <<>>

\* lines 668-671
CheckpointEvents(resume_from, load_from) ==
    IF Truthy(resume_from) THEN << <<"resume", resume_from>> >>
    ELSE IF Truthy(load_from) THEN << <<"load_checkpoint", load_from>> >>
    ELSE <<>>

\* lines 662-671: resume or load a checkpoint.
T_Checkpoint ==
    /\ t_pc = "checkpoint"
    /\ \E resume_from \in {None, "", ExplicitCheckpoint},
          auto_resume \in BOOLEAN,
          latest \in {None, LatestCheckpoint},
          load_from \in {None, PretrainedCheckpoint} :
         /\ AsksLatest(resume_from, auto_resume) \/ latest = None
         /\ t_cfg' = [t_cfg EXCEPT
                !.resume_from = resume_from,
                !.auto_resume = auto_resume,
                !.latest = IF AsksLatest(resume_from, auto_resume) THEN latest
                           ELSE "uncalled",
                !.load_from = load_from]
         /\ t_loc' = [t_loc EXCEPT
                !.cfg_resume_from = ResumeTarget(resume_from, auto_resume, latest)]
         /\ t_log' = (IF AsksLatest(resume_from, auto_resume)
                      THEN Append(t_log, <<"find_latest_checkpoint">>) ELSE t_log)
                     \o CheckpointEvents(ResumeTarget(resume_from, auto_resume, latest),
                                         load_from)
    /\ t_pc' = "run"
    /\ UNCHANGED <<t_args, t_err, e_vars, b_vars, x_vars, s_vars>>

\* line 672
T_Run ==
    /\ t_pc = "run"
    /\ t_log' = Append(t_log, <<"run", <<t_loc.data_loader>>, t_cfg.workflow>>)
    /\ t_pc' = "done"
    /\ UNCHANGED <<t_args, t_cfg, t_loc, t_err, e_vars, b_vars, x_vars, s_vars>>

T_Next ==
    \/ T_LoadTrain
    \/ T_SelectLoader
    \/ T_TrainTensors
    \/ T_WrapModel
    \/ T_BuildTrainLoader
    \/ T_BuildRunner
    \/ T_RegisterHooks
    \/ T_ValArgs
    \/ T_ValDataset
    \/ T_ValTensors
    \/ T_BuildValLoader
    \/ T_CustomHooks
    \/ T_Checkpoint
    \/ T_Run

(***************************************************************************)
(* transform: one stored sample is shaped for the pipeline.                *)
(*                                                                         *)
(* An array is a record of its dtype, its shape and its pixels in row      *)
(* order; each pixel is the sequence of its channel values (one value for  *)
(* a two-dimensional image, whose shape has two entries).                  *)
(***************************************************************************)
NumChannels(form) == IF form = "HW3" THEN 3 ELSE 1

\* Channel values that differ from channel to channel; the int32 ones lie
\* beyond the integers float32 holds exactly.
PixelValue(dtype, k) ==
    IF dtype = "uint8" THEN <<0, 128, 255>>[k + 1]
    ELSE <<7, 16777217, 16777219>>[k + 1]

StoredImage(h, w, form, dtype, seed, is_ndarray) ==
    [is_ndarray |-> is_ndarray,
     dtype |-> dtype,
     shape |-> IF form = "HW" THEN <<h, w>> ELSE <<h, w, NumChannels(form)>>,
     px |-> [i \in 1..(h * w) |->
               [c \in 1..NumChannels(form) |-> PixelValue(dtype, (i + c + seed) % 3)]]]

StoredMask(h, w, is_ndarray) ==
    [is_ndarray |-> is_ndarray,
     dtype |-> "uint8",
     shape |-> <<h, w>>,
     px |-> [i \in 1..(h * w) |-> <<i % 2>>]]

\* The pipelines tried: one that returns its record, one that keeps the
\* image and the mask only.
SamplePipelines == {"Identity", "Collect"}

ApplyPipeline(pipeline, record) ==
    IF pipeline = "Identity" THEN record
    ELSE [img |-> record.img, gt_semantic_seg |-> record.gt_semantic_seg]

\* sample_in with the pipeline the call is given.
Samples ==
    {[img |-> StoredImage(h, w, form, dtype, seed, a),
      mask |-> StoredMask(h, w, b),
      pipeline |-> pl] :
        h \in 1..MaxSide, w \in 1..MaxSide,
        form \in {"HW", "HW1", "HW3"},
        dtype \in {"uint8", "int32"},
        seed \in 0..1,
        a \in BOOLEAN, b \in BOOLEAN,
        pl \in SamplePipelines}

\* lines 329-330 and 333-334: np.array(x) of what is no ndarray
AsArray(x) == [x EXCEPT !.is_ndarray = TRUE]

\* line 337: np.expand_dims(img, -1)
ExpandDims(img) == [img EXCEPT !.shape = Append(img.shape, 1)]

\* A channel slice that keeps the stored order.
ReversePixel_Kept(pixel) == pixel

\* line 339: [..., ::-1] on one pixel
ReversePixel(pixel) == [c \in 1..Len(pixel) |-> pixel[Len(pixel) + 1 - c]]

\* line 341: np.repeat(img, 3, axis=2)
RepeatChannels(img) ==
    [img EXCEPT !.shape = <<img.shape[1], img.shape[2], 3 * img.shape[3]>>,
                !.px = [i \in DOMAIN img.px |->
                          [c \in 1..(3 * Len(img.px[i])) |-> img.px[i][((c - 1) \div 3) + 1]]]]

\* The float32 nearest to an integer below 2^25, ties to the even mantissa.
ToFloat32(v) ==
    IF v <= 2^24 \/ v % 2 = 0 THEN v
    ELSE IF ((v - 1) \div 2) % 2 = 0 THEN v - 1 ELSE v + 1

\* line 345: np.ascontiguousarray(img, dtype=np.float32)
AsFloat32(img) ==
    [img EXCEPT !.dtype = "float32",
                !.px = [i \in DOMAIN img.px |->
                          [c \in DOMAIN img.px[i] |-> ToFloat32(img.px[i][c])]]]

\* lines 344-353
PipelineDict(img, shape, mask) ==
    [img |-> AsFloat32(img),
     img_fields |-> <<"img">>,
     filename |-> None,
     ori_filename |-> None,
     img_shape |-> shape,
     ori_shape |-> shape,
     gt_semantic_seg |-> mask,
     seg_fields |-> <<"gt_semantic_seg">>]

NoArray == [is_ndarray |-> FALSE, dtype |-> None, shape |-> <<>>, px |-> <<>>]

NoRecord == [img |-> NoArray, gt_semantic_seg |-> NoArray]

X_Init ==
    /\ x_pc = "start"
    /\ x_in \in Samples
    /\ x_img = NoArray
    /\ x_mask = NoArray
    /\ x_shape = <<>>
    /\ x_record = NoRecord
    /\ x_out = NoRecord

X_Idle ==
    /\ x_pc = "idle"
    /\ x_in = [img |-> NoArray, mask |-> NoArray, pipeline |-> None]
    /\ x_img = NoArray
    /\ x_mask = NoArray
    /\ x_shape = <<>>
    /\ x_record = NoRecord
    /\ x_out = NoRecord

\* lines 328-334: the image and the mask are read and made arrays.
X_ToArrays ==
    /\ x_pc = "start"
    /\ x_img' = (IF x_in.img.is_ndarray THEN x_in.img ELSE AsArray(x_in.img))
    /\ x_mask' = (IF x_in.mask.is_ndarray THEN x_in.mask ELSE AsArray(x_in.mask))
    /\ x_pc' = "expand"
    /\ UNCHANGED <<x_in, x_shape, x_record, x_out, e_vars, b_vars, t_vars, s_vars>>

\* lines 336-337: a two-dimensional image gets a channel axis.
X_ExpandDims ==
    /\ x_pc = "expand"
    /\ x_img' = (IF Len(x_img.shape) = 2 THEN ExpandDims(x_img) ELSE x_img)
    /\ x_pc' = "reverse"
    /\ UNCHANGED <<x_in, x_mask, x_shape, x_record, x_out, e_vars, b_vars, t_vars, s_vars>>

\* line 339: the channel order is reversed.
X_ReverseChannels ==
    /\ x_pc = "reverse"
    /\ x_img' = [x_img EXCEPT !.px = [i \in DOMAIN x_img.px |-> ReversePixel(x_img.px[i])]]
    /\ x_pc' = "repeat"
    /\ UNCHANGED <<x_in, x_mask, x_shape, x_record, x_out, e_vars, b_vars, t_vars, s_vars>>

\* lines 340-342: one channel becomes three; the shape is noted.
X_RepeatChannels ==
    /\ x_pc = "repeat"
    /\ x_img' = (IF x_img.shape[3] = 1 THEN RepeatChannels(x_img) ELSE x_img)
    /\ x_shape' = x_img'.shape
    /\ x_pc' = "pipeline"
    /\ UNCHANGED <<x_in, x_mask, x_record, x_out, e_vars, b_vars, t_vars, s_vars>>

\* lines 344-355: the record is built and given to the pipeline.
X_CallPipeline ==
    /\ x_pc = "pipeline"
    /\ x_record' = PipelineDict(x_img, x_shape, x_mask)
    /\ x_out' = ApplyPipeline(x_in.pipeline, x_record')
    /\ x_pc' = "returned"
    /\ UNCHANGED <<x_in, x_img, x_mask, x_shape, e_vars, b_vars, t_vars, s_vars>>

X_Next ==
    \/ X_ToArrays
    \/ X_ExpandDims
    \/ X_ReverseChannels
    \/ X_RepeatChannels
    \/ X_CallPipeline

(***************************************************************************)
(* train_segmentor: one call of _train_segmentor in the calling process,   *)
(* or one per spawned process.                                             *)
(***************************************************************************)
\* range(n)
RangeList(n) == [i \in 1..n |-> i - 1]

\* cfg.gpu_ids as the caller configured it; the attribute may be missing.
ConfiguredGpuIds ==
    {[present |-> FALSE, ids |-> <<>>]}
    \cup {[present |-> TRUE, ids |-> ids] :
            ids \in {<<0>>, <<0, 1>>, <<2, 3>>, <<3, 1, 2>>}}

SegmentorCalls ==
    [distributed : BOOLEAN, gpu_ids : ConfiguredGpuIds, device_count : 0..MaxDevices]

\* line 374
DefaultGpuIds(distributed, device_count) ==
    RangeList(IF distributed THEN device_count ELSE 1)

\* One process per visible device.
NumProcs_DeviceCount(gpu_ids, device_count) == device_count

\* line 391: nprocs=len(cfg.gpu_ids)
NumProcs(gpu_ids, device_count) == Len(gpu_ids)

\* One call of _train_segmentor: who runs it, its local rank and port, and
\* how lines 489-509 wrap the model there.
SegmentorCall(process, local_rank, port, distributed, gpu_ids) ==
    [process |-> process,
     local_rank |-> local_rank,
     port |-> port,
     distributed |-> distributed,
     events |-> IF distributed /\ local_rank >= Len(gpu_ids)
                THEN << <<"IndexError">> >>
                ELSE WrapEvents([distributed |-> distributed, gpu_ids |-> gpu_ids,
                                 local_rank |-> local_rank, port |-> port])]

S_Init ==
    /\ s_pc = "start"
    /\ s_args \in SegmentorCalls
    /\ s_gpu_ids = <<>>
    /\ s_port = None
    /\ s_port_calls = 0
    /\ s_procs = <<>>
    /\ s_calls = <<>>

S_Idle ==
    /\ s_pc = "idle"
    /\ s_args = [distributed |-> FALSE, gpu_ids |-> [present |-> FALSE, ids |-> <<>>],
                 device_count |-> 0]
    /\ s_gpu_ids = <<>>
    /\ s_port = None
    /\ s_port_calls = 0
    /\ s_procs = <<>>
    /\ s_calls = <<>>

\* lines 371-374: cfg.gpu_ids gets its default.
S_GpuIds ==
    /\ s_pc = "start"
    /\ s_gpu_ids' = IF s_args.gpu_ids.present THEN s_args.gpu_ids.ids
                    ELSE DefaultGpuIds(s_args.distributed, s_args.device_count)
    /\ s_pc' = "ready"
    /\ UNCHANGED <<s_args, s_port, s_port_calls, s_procs, s_calls,
                   e_vars, b_vars, t_vars, x_vars>>

\* lines 375-392: the port is taken, then the processes are spawned.
S_Spawn ==
    /\ s_pc = "ready"
    /\ s_args.distributed
    /\ s_port' = FreePort
    /\ s_port_calls' = s_port_calls + 1
    /\ s_procs' = [r \in 1..NumProcs(s_gpu_ids, s_args.device_count) |-> "pending"]
    /\ s_pc' = "spawned"
    /\ UNCHANGED <<s_args, s_gpu_ids, s_calls, e_vars, b_vars, t_vars, x_vars>>

\* A spawned process runs _train_segmentor(rank, ..., port).
S_ChildRun ==
    /\ s_pc = "spawned"
    /\ \E r \in 1..Len(s_procs) :
         /\ s_procs[r] = "pending"
         /\ s_procs' = [s_procs EXCEPT ![r] = "running"]
         /\ s_calls' = Append(s_calls,
                SegmentorCall("child", r - 1, s_port, s_args.distributed, s_gpu_ids))
    /\ UNCHANGED <<s_pc, s_args, s_gpu_ids, s_port, s_port_calls,
                   e_vars, b_vars, t_vars, x_vars>>

S_ChildExit ==
    /\ s_pc = "spawned"
    /\ \E r \in 1..Len(s_procs) :
         /\ s_procs[r] = "running"
         /\ s_procs' = [s_procs EXCEPT ![r] = "done"]
    /\ UNCHANGED <<s_pc, s_args, s_gpu_ids, s_port, s_port_calls, s_calls,
                   e_vars, b_vars, t_vars, x_vars>>

\* spawn returns once every process has ended.
S_Join ==
    /\ s_pc = "spawned"
    /\ \A r \in 1..Len(s_procs) : s_procs[r] = "done"
    /\ s_pc' = "done"
    /\ UNCHANGED <<s_args, s_gpu_ids, s_port, s_port_calls, s_procs, s_calls,
                   e_vars, b_vars, t_vars, x_vars>>

\* lines 393-405: the call in the calling process.
S_Direct ==
    /\ s_pc = "ready"
    /\ ~s_args.distributed
    /\ s_calls' = Append(s_calls,
           SegmentorCall("parent", 0, None, s_args.distributed, s_gpu_ids))
    /\ s_pc' = "done"
    /\ UNCHANGED <<s_args, s_gpu_ids, s_port, s_port_calls, s_procs,
                   e_vars, b_vars, t_vars, x_vars>>

S_Next ==
    \/ S_GpuIds
    \/ S_Spawn
    \/ S_ChildRun
    \/ S_ChildExit
    \/ S_Join
    \/ S_Direct

Init == E_Idle /\ B_Idle /\ T_Init /\ X_Idle /\ S_Idle

Spec == Init /\ [][T_Next]_vars

E_Next ==
    \/ E_Reorder
    \/ E_CheckMetric
    \/ E_Compute
    \/ E_Aggregate
    \/ E_Log
    \/ E_Result

B_Next == B_Call

InitEval == E_Init /\ B_Idle /\ T_Idle /\ X_Idle /\ S_Idle

SpecEval == InitEval /\ [][E_Next]_vars

InitBuild == E_Idle /\ B_Init /\ T_Idle /\ X_Idle /\ S_Idle

SpecBuild == InitBuild /\ [][B_Next]_vars

InitTransform == E_Idle /\ B_Idle /\ T_Idle /\ X_Init /\ S_Idle

SpecTransform == InitTransform /\ [][X_Next]_vars

InitSegmentor == E_Idle /\ B_Idle /\ T_Idle /\ X_Idle /\ S_Init

SpecSegmentor == InitSegmentor /\ [][S_Next]_vars

(***************************************************************************)
(* Properties of build_dataloader and _train_segmentor                     *)
(***************************************************************************)
Events(op) == SelectSeq(t_log, LAMBDA ev : ev[1] = op)

Has(op) == Events(op) # <<>>

\* The build_dataloader calls made for one split.
Calls(split) == SelectSeq(Events("build_dataloader"), LAMBDA ev : ev[2] = split)

Warnings(split) ==
    SelectSeq(Events("always_warn"), LAMBDA ev : ev = DatasetWarning(split))

LoaderBuilt == Has("dataset.pytorch") \/ Has("dataloader") \/ Has("MMSegDataset")

Ended == t_pc \in {"raised", "done"}

\* The arguments a caller may pass: a pipeline whose steps all have a type,
\* and a masks tensor that is None or a tensor of the dataset.
ValidBuildCall ==
    /\ BuildPipelineError(b_args.pipeline) = "none"
    /\ b_args.masks_tensor \in {None} \cup TensorNames(b_args.dataset)

\* C1: every call of build_dataloader with dist=True and
\* implementation='python' ends in NotImplementedError, whatever the masks
\* tensor, the pipeline and the loader configuration are, and builds no
\* loader and no MMSegDataset.
C1_DistPythonAlwaysNotImplemented ==
    (/\ b_pc \in {"returned", "raised"}
     /\ ValidBuildCall
     /\ b_args.config["dist"]
     /\ b_args.implementation = "python")
    => /\ b_res.err = "NotImplementedError"
       /\ b_res.loader.impl = None
       /\ \A i \in 1..Len(b_res.log) :
            b_res.log[i][1] \notin {"dataset.pytorch", "dataloader", "MMSegDataset"}

\* C2: with validate=True, ds_val=None and a cfg.data without 'val', or with
\* a 'val' that has no deeplake_path, the call ends in the documented
\* "Validation dataset is not specified" Exception and in no other error.
C2_MissingValidationRaisesDocumentedError ==
    (/\ Ended
     /\ t_args.validate
     /\ t_cfg.val.read
     /\ t_cfg.val.ds_val.id = None
     /\ (~t_cfg.val.present \/ t_cfg.val.deeplake_path = Absent))
    => t_err = ValidationMissing

SetupOps ==
    {"force_cudnn_initialization", "ddp_setup", "build_ddp", "build_dp",
     "build_optimizer", "build_runner", "register_training_hooks",
     "register_hook"}

AfterLoaderOps ==
    {"build_optimizer", "build_runner", "OptimizerHook",
     "register_training_hooks", "register_hook", "find_latest_checkpoint",
     "resume", "load_checkpoint", "run"}

AfterValidationOps ==
    {"find_latest_checkpoint", "resume", "load_checkpoint", "run"}

ConfigErrors == {"NotImplementedError", ValidationMissing}

\* C4 as claimed: a configuration error is raised before the process group
\* is initialised, before the model is wrapped, before the optimizer and the
\* runner are built and before any hook is registered.
C4_ErrorsBeforeAnyCollaborator ==
    t_err \in ConfigErrors => \A op \in SetupOps : ~Has(op)

\* The model was wrapped once, for its devices.
WrappedOnce ==
    IF t_args.distributed
    THEN /\ Len(Events("force_cudnn_initialization")) = 1
         /\ Len(Events("ddp_setup")) = 1
         /\ Len(Events("build_ddp")) = 1
         /\ ~Has("build_dp")
    ELSE /\ Len(Events("build_dp")) = 1
         /\ ~Has("force_cudnn_initialization") /\ ~Has("ddp_setup")
         /\ ~Has("build_ddp")

\* cfg sets dist for the train loader itself.
DistOverridden ==
    \/ "dist" \in DOMAIN t_args.train_dataloader
    \/ "dist" \in DOMAIN t_args.split.deeplake_dataloader

\* The optimizer and the runner are built and the training hooks
\* registered; no other hook than DistSamplerSeedHook is.
RunnerReady ==
    /\ Len(Events("build_optimizer")) = 1
    /\ Len(Events("build_runner")) = 1
    /\ Len(Events("register_training_hooks")) = 1
    /\ \A i \in 1..Len(Events("register_hook")) :
          Events("register_hook")[i][2] = "DistSamplerSeedHook"

\* C4 as amended: the unsupported loader/distributed combination is raised
\* by a build_dataloader call whose loader is python and whose dist setting
\* is true, once the call has read its class names and built its pipeline,
\* after the model is wrapped; by the train call before the
\* optimizer, the runner and every hook, by the validation call (reached
\* when cfg turned dist off for the train loader) after the training hooks
\* and before the evaluation hook.  The missing validation dataset is raised
\* after the train loader, the optimizer, the runner and the training
\* hooks, and before the validation loader, the evaluation hook and the
\* custom hooks.  After either error nothing more is called and nothing is
\* called twice.
C4_ConfigErrorsOrdering ==
    /\ (/\ Calls("train") # <<>>
        /\ t_loc.dl_impl = "python"
        /\ BuildPipelineError(t_cfg.train_pipeline) = "none"
        /\ \/ t_loc.train_loader_cfg["dist"]
           \/ t_args.distributed /\ ~DistOverridden)
          => t_err = "NotImplementedError" /\ Calls("val") = <<>>
    /\ (/\ Calls("val") # <<>>
        /\ t_loc.dl_impl = "python"
        /\ LookupError(t_loc.ds_val, t_loc.val_masks_tensor) = "none"
        /\ BuildPipelineError(t_cfg.test_pipeline) = "none"
        /\ t_args.distributed)
          => t_err = "NotImplementedError"
    /\ t_err = "NotImplementedError" =>
          /\ t_pc = "raised"
          /\ t_loc.dl_impl = "python"
          /\ WrappedOnce
          /\ Len(Calls("train")) = 1
          /\ IF Calls("val") = <<>>
             THEN /\ t_loc.train_loader_cfg["dist"]
                  /\ t_args.distributed \/ DistOverridden
                  /\ ~LoaderBuilt
                  /\ \A op \in AfterLoaderOps : ~Has(op)
             ELSE /\ t_args.distributed /\ t_args.validate /\ DistOverridden
                  /\ ~t_loc.train_loader_cfg["dist"]
                  /\ Len(Calls("val")) = 1
                  /\ t_loc.data_loader.impl # None
                  /\ t_loc.val_dataloader.impl = None
                  /\ Len(Events("MMSegDataset")) = 1
                  /\ RunnerReady
                  /\ \A op \in AfterValidationOps : ~Has(op)
    /\ (/\ t_args.validate /\ t_cfg.val.read /\ t_cfg.val.present
        /\ t_cfg.val.ds_val.id = None /\ t_cfg.val.deeplake_path \in {Absent, None}
        /\ t_pc \notin {"val_args", "val_dataset"})
          => t_err = ValidationMissing
    /\ t_err = ValidationMissing =>
          /\ t_pc = "raised"
          /\ t_args.validate /\ t_cfg.val.ds_val.id = None
          /\ t_cfg.val.present /\ t_cfg.val.deeplake_path \in {Absent, None}
          /\ WrappedOnce
          /\ Len(Calls("train")) = 1
          /\ t_loc.data_loader.impl # None
          /\ RunnerReady
          /\ Calls("val") = <<>>
          /\ ~Has("load_ds_from_cfg") \/ Events("load_ds_from_cfg") = << <<"load_ds_from_cfg", "train">> >>
          /\ \A op \in AfterValidationOps : ~Has(op)
    /\ t_pc = "raised" => ~Has("run")

\* Validation was asked for without any dataset: the error came after the
\* runner was built and the training hooks were registered.
C4_Witness ==
    /\ t_err = ValidationMissing
    /\ Has("build_runner")
    /\ Has("register_training_hooks")
    /\ ~Has("run")

\* Case-insensitive equality, letter by letter.
UpperChar(c) ==
    CASE c \in {"a", "A"} -> "A" [] c \in {"u", "U"} -> "U"
      [] c \in {"t", "T"} -> "T" [] c \in {"o", "O"} -> "O"
      [] c \in {"c", "C"} -> "C" [] c \in {"p", "P"} -> "P"
      [] c \in {"y", "Y"} -> "Y" [] c \in {"h", "H"} -> "H"
      [] c \in {"n", "N"} -> "N" [] c \in {"r", "R"} -> "R"
      [] OTHER -> c

SameIgnoringCase(chars, word) ==
    /\ Len(chars) = Len(word)
    /\ \A i \in 1..Len(chars) : UpperChar(chars[i]) = UpperChar(word[i])

\* The backend the flag stands for, "ValueError" for a flag outside the list.
ExpectedBackend(flag, indra) ==
    IF ~flag.present \/ SameIgnoringCase(flag.chars, <<"a", "u", "t", "o">>)
    THEN (IF indra = "True" THEN "c++" ELSE "python")
    ELSE IF \/ SameIgnoringCase(flag.chars, <<"c", "+", "+">>)
            \/ SameIgnoringCase(flag.chars, <<"c", "p", "p">>)
    THEN "c++"
    ELSE IF SameIgnoringCase(flag.chars, <<"p", "y", "t", "h", "o", "n">>)
    THEN "python"
    ELSE "ValueError"

\* C6: the flag, compared without regard to case, selects the backend:
\* 'python' the python loader, 'c++' and 'cpp' the accelerated one, 'auto'
\* or no flag the accelerated one exactly when indra_available(); any other
\* value raises ValueError before the model is wrapped and before a loader
\* is built; the train and the validation loader use the same backend.
C6_BackendSelectedByFlag ==
    t_pc \notin {"start", "select"} =>
      LET expected == ExpectedBackend(t_cfg.flag, t_cfg.indra) IN
      /\ (expected = "ValueError") <=> (t_err = "ValueError")
      /\ (t_cfg.indra # "uncalled") <=>
            (~t_cfg.flag.present
             \/ SameIgnoringCase(t_cfg.flag.chars, <<"a", "u", "t", "o">>))
      /\ t_err = "ValueError" =>
            /\ \A op \in {"ddp_setup", "build_ddp", "build_dp", "build_dataloader"} :
                  ~Has(op)
            /\ ~LoaderBuilt
      /\ expected # "ValueError" =>
            /\ t_loc.dl_impl = expected
            /\ \A i \in 1..Len(Events("build_dataloader")) :
                  Events("build_dataloader")[i][6] = expected
            /\ Has("dataset.pytorch") => expected = "python"
            /\ Has("dataloader") => expected = "c++"
            /\ t_loc.data_loader.impl \in {None, expected}
            /\ t_loc.val_dataloader.impl \in {None, expected}

\* An upper-case 'CPP' gave the accelerated loader to both splits.
C6_Witness ==
    /\ t_pc = "done"
    /\ t_cfg.flag = Flag(<<"C", "P", "P">>)
    /\ t_loc.data_loader.impl = "c++"
    /\ t_loc.val_dataloader.impl = "c++"
    /\ Len(Events("dataloader")) = 2

\* C7: at most one of runner.resume and runner.load_checkpoint is called,
\* and before runner.run; resuming (from cfg.resume_from, or without one and
\* with auto_resume from the latest checkpoint found) takes precedence over
\* loading cfg.load_from; an explicit cfg.resume_from is never replaced by
\* the auto-resume checkpoint.
C7_CheckpointBeforeRun ==
    t_pc \in {"run", "done"} =>
      LET found == /\ t_cfg.resume_from = None
                   /\ t_cfg.auto_resume
                   /\ t_cfg.latest \notin {None, "uncalled"}
          target == IF t_cfg.resume_from # None THEN t_cfg.resume_from
                    ELSE IF found THEN t_cfg.latest ELSE None
      IN  /\ Len(Events("resume")) + Len(Events("load_checkpoint")) <= 1
          /\ Has("resume") <=> Truthy(target)
          /\ Has("resume") => Events("resume")[1][2] = target
          /\ Has("load_checkpoint") <=> (~Truthy(target) /\ Truthy(t_cfg.load_from))
          /\ Has("load_checkpoint") =>
                Events("load_checkpoint")[1][2] = t_cfg.load_from
          /\ t_cfg.resume_from # None =>
                /\ t_loc.cfg_resume_from = t_cfg.resume_from
                /\ ~Has("find_latest_checkpoint")
          /\ t_loc.cfg_resume_from = target
          /\ t_pc = "run" => ~Has("run")
          /\ t_pc = "done" =>
                /\ Len(Events("run")) = 1
                /\ t_log[Len(t_log)][1] = "run"

\* Auto-resume found a checkpoint while load_from was set too: the run
\* resumed and loaded nothing.
C7_Witness ==
    /\ t_pc = "done"
    /\ t_cfg.resume_from = None /\ t_cfg.auto_resume
    /\ t_cfg.latest = LatestCheckpoint
    /\ t_cfg.load_from = PretrainedCheckpoint
    /\ Events("resume") = << <<"resume", LatestCheckpoint>> >>
    /\ ~Has("load_checkpoint")

\* C8: a dataset passed as an argument wins over the one cfg names: it is
\* the one given to build_dataloader, load_ds_from_cfg is not called for
\* that split, one warning is issued for the split, and the tensors are
\* those of the mapping passed with it.
PassedTrainWins ==
    (/\ t_args.split.ds_train.id # None
     /\ Truthy(t_args.split.deeplake_path)
     /\ Calls("train") # <<>>)
    => /\ Calls("train")[1][3] = t_args.split.ds_train.id
       /\ <<"load_ds_from_cfg", "train">> \notin Range(Events("load_ds_from_cfg"))
       /\ Len(Warnings("train")) = 1
       /\ MappingTruthy(t_args.split.ds_train_tensors) =>
             /\ Calls("train")[1][4] = t_args.split.ds_train_tensors.d["img"]
             /\ Calls("train")[1][5] =
                  DictGet(t_args.split.ds_train_tensors.d, "gt_semantic_seg", None)

PassedValWins ==
    (/\ t_cfg.val.read
     /\ t_cfg.val.ds_val.id # None
     /\ t_cfg.val.deeplake_path \notin {Absent, None}
     /\ Calls("val") # <<>>)
    => /\ Calls("val")[1][3] = t_cfg.val.ds_val.id
       /\ <<"load_ds_from_cfg", "val">> \notin Range(Events("load_ds_from_cfg"))
       /\ Len(Warnings("val")) = 1
       /\ MappingTruthy(t_cfg.val.ds_val_tensors) =>
             /\ Calls("val")[1][4] = t_cfg.val.ds_val_tensors.d["img"]
             /\ Calls("val")[1][5] =
                  DictGet(t_cfg.val.ds_val_tensors.d, "gt_semantic_seg", None)

C8_PassedDatasetTakesPrecedence == PassedTrainWins /\ PassedValWins

\* The custom hooks of cfg as register_hook calls.
ExpectedCustomHooks ==
    [i \in 1..Len(t_cfg.custom_hooks) |->
        <<"register_hook", t_cfg.custom_hooks[i].type,
          IF t_cfg.custom_hooks[i].priority = Absent THEN "NORMAL"
          ELSE t_cfg.custom_hooks[i].priority>>]

WiringOps ==
    {"register_training_hooks", "register_hook", "resume", "load_checkpoint", "run"}

Wiring == SelectSeq(t_log, LAMBDA ev : ev[1] \in WiringOps)

CheckpointPart ==
    SelectSeq(t_log, LAMBDA ev : ev[1] \in {"resume", "load_checkpoint"})

\* C9: a call that completes registers the training hooks, then
\* DistSamplerSeedHook (distributed and epoch based only), then the
\* evaluation hook with priority LOW (validate only; DistEvalHook exactly
\* when distributed), then the custom hooks in their order with their
\* priorities (default NORMAL), then resumes or loads, and last calls
\* runner.run once with [train loader] and cfg.workflow; without validate
\* there is no evaluation hook and no validation loader.  (A call with
\* custom hooks completes only where the name HOOKS is bound.)
C9_WiringOrder ==
    t_pc = "done" =>
      /\ t_cfg.custom_hooks # <<>> => t_cfg.HOOKS = "bound"
      /\ Wiring =
           ((((<< <<"register_training_hooks">> >>
           \o (IF t_args.distributed /\ t_args.runner_type = "EpochBasedRunner"
               THEN << <<"register_hook", "DistSamplerSeedHook", "unspecified">> >>
               ELSE <<>>))
           \o (IF t_args.validate
               THEN << <<"register_hook",
                         IF t_args.distributed THEN "DistEvalHook" ELSE "EvalHook",
                         "LOW">> >>
               ELSE <<>>))
           \o ExpectedCustomHooks)
           \o CheckpointPart)
           \o << <<"run", <<t_loc.data_loader>>, t_cfg.workflow>> >>
      /\ Len(CheckpointPart) <= 1
      /\ t_loc.data_loader.impl # None
      /\ t_loc.data_loader.source = t_loc.ds_train.id
      /\ t_loc.data_loader.dataset.mode = "train"
      /\ ~t_args.validate =>
            /\ Calls("val") = <<>>
            /\ t_loc.val_dataloader.impl = None
            /\ Len(Events("dataset.pytorch")) + Len(Events("dataloader")) = 1

\* A distributed, validated, epoch-based run with two custom hooks that
\* resumed a checkpoint.
C9_Witness ==
    /\ t_pc = "done"
    /\ t_args.distributed /\ t_args.validate
    /\ t_args.runner_type = "EpochBasedRunner"
    /\ Len(t_cfg.custom_hooks) = 2
    /\ t_cfg.HOOKS = "bound"
    /\ Has("resume")
    /\ Len(Wiring) = 7

\* C10: with a validation mapping ds_val_tensors, the validation loader is
\* built from it alone: images from ds_val_tensors['img'], masks from
\* ds_val_tensors['gt_semantic_seg'], whatever ds_train_tensors is.
C10_ValTensorsFromValMapping ==
    (/\ MappingTruthy(t_loc.ds_val_tensors)
     /\ t_loc.val_images_tensor # None)
    => /\ t_err # "AttributeError"
       /\ t_loc.val_images_tensor = t_loc.ds_val_tensors.d["img"]
       /\ t_loc.val_masks_tensor =
            DictGet(t_loc.ds_val_tensors.d, "gt_semantic_seg", None)
       /\ \A i \in 1..Len(Calls("val")) :
            Calls("val")[i][5] =
               DictGet(t_loc.ds_val_tensors.d, "gt_semantic_seg", None)

\* The loaders the call has built so far.
BuiltLoaders ==
    {ld \in {t_loc.data_loader, t_loc.val_dataloader} : ld.impl # None}

\* C11: the ignore_index and reduce_zero_label of cfg (defaults 255 and
\* False) are passed to build_dataloader, and the MMSegDataset of every
\* loader it returns evaluates with that same pair, for both backends.
C11_LabelSettingsReachDataset ==
    /\ t_loc.train_loader_cfg # EmptyDict =>
          /\ t_loc.train_loader_cfg["ignore_index"] = IgnoreIndex(t_args)
          /\ t_loc.train_loader_cfg["reduce_zero_label"] = ReduceZeroLabel(t_args)
    /\ t_loc.val_dataloader_args # EmptyDict =>
          /\ t_loc.val_dataloader_args["ignore_index"] = IgnoreIndex(t_args)
          /\ t_loc.val_dataloader_args["reduce_zero_label"] = ReduceZeroLabel(t_args)
    /\ \A ld \in BuiltLoaders :
          /\ ld.dataset.ignore_index = IgnoreIndex(t_args)
          /\ ld.dataset.reduce_zero_label = ReduceZeroLabel(t_args)

\* C12: the validation loader is always built with shuffle=False and
\* mode='val', whatever cfg.data.val.deeplake_dataloader holds, and when
\* that user configuration sets shuffle to a true value the warning
\* 'shuffle argument for validation dataset will be ignored.' is issued.
C12_ValidationShuffleIgnoredAndWarned ==
    /\ t_loc.val_dataloader.impl # None =>
          /\ t_loc.val_dataloader.shuffle = FALSE
          /\ t_loc.val_dataloader.dataset.mode = "val"
    /\ \A i \in 1..Len(Calls("val")) : Calls("val")[i][7] = "val"
    /\ (/\ t_cfg.val.read
        /\ t_cfg.val.present
        /\ DictGet(t_cfg.val.deeplake_dataloader, "shuffle", FALSE))
          => <<"always_warn", "shuffle ignored">> \in Range(t_log)

(***************************************************************************)
(* Properties of MMSegDataset.evaluate                                     *)
(***************************************************************************)
\* The names the caller asked for, whether given as a string or as a list.
EvalArgNames ==
    IF e_args.metric.kind = "str" THEN {e_args.metric.v}
    ELSE Range(e_args.metric.v)

SupportedNames == {"mIoU", "mDice", "mFscore"}

\* C3: evaluate supports exactly mIoU, mDice and mFscore.  A metric argument
\* (string or list) holding any other name ends in KeyError before a metric
\* is computed, a table is logged or a result is filled in; an argument
\* inside the set passes the check without a KeyError.
C3_UnsupportedMetricRaisesKeyError ==
    /\ e_pc \in {"start", "check"} => e_err = "none"
    /\ e_pc \in {"compute", "aggregate", "log", "result", "done"} =>
          /\ EvalArgNames \subseteq SupportedNames
          /\ e_err = "none"
    /\ e_pc = "raised" =>
          /\ ~(EvalArgNames \subseteq SupportedNames)
          /\ e_err = "KeyError"
          /\ e_areas = <<>> /\ e_ret = <<>>
          /\ e_summary = <<>> /\ e_class = <<>>
          /\ e_log = <<>>
          /\ e_out = EmptyDict

\* A list mixing a supported and an unsupported name was rejected.
C3_Witness ==
    /\ e_pc = "raised"
    /\ e_args.metric = List(<<"mDice", "mAcc">>)
    /\ e_err = "KeyError"

\* The claim's arithmetic, stated from the formulas: the values nearest to
\* q * 10000, as fractions of 10000, as far as the floats of the arrays can
\* tell.  There is one, but for a q * 10000 midway between two integers, or
\* nearer to the midpoint than the error of a float32 computation of so
\* many roundings, where both neighbours count as nearest.
RoundedFractions(q, roundings) ==
    IF q[2] = 0 THEN {<<0, 0>>}
    ELSE LET k == Scaled(q).k
             rem == Scaled(q).rem
             d == Scaled(q).d
             tol == Slack(q, roundings)
         IN  {<<r, 10000>> : r \in
                {x \in {k, k + 1} :
                    IF x = k THEN 2 * rem <= d + tol
                    ELSE 2 * (d - rem) <= d + tol}}

RECURSIVE DenLCM(_)
DenLCM(vec) ==
    IF vec = <<>> THEN 1
    ELSE LET h == IF Head(vec)[2] = 0 THEN 1 ELSE Reduce(Head(vec))[2]
             t == DenLCM(Tail(vec))
         IN  (h \div GCD(h, t)) * t

RECURSIVE ScaledSum(_, _)
ScaledSum(vec, den) ==
    IF vec = <<>> THEN 0
    ELSE (IF Head(vec)[2] = 0 THEN 0
          ELSE Reduce(Head(vec))[1] * (den \div Reduce(Head(vec))[2]))
         + ScaledSum(Tail(vec), den)

\* The mean over the classes whose value is not NaN.
MeanOfDefined(vec) ==
    LET cnt == Cardinality({i \in 1..Len(vec) : vec[i][2] # 0})
        den == DenLCM(vec)
    IN  IF cnt = 0 THEN <<0, 0>> ELSE <<ScaledSum(vec, den), den * cnt>>

\* The roundings a float computation of a rounded value can take: those of
\* the longest, the mean of the F-score over all classes.
MostRoundings == 8 + Len(e_self.CLASSES)

\* What the metric primitive returned to this call.
ReturnedMetrics == total_area_to_metrics(e_areas, e_metric.v, 53)

PerClassNames == ODKeys(ReturnedMetrics) \ {"aAcc"}

ClassIndex == 1..Len(e_self.CLASSES)

\* C5: the returned dictionary holds, for every per-class vector of the
\* primitive, under "m"+name the mean over the classes that are not NaN and
\* under name+"."+class the value of that class, each rounded to two
\* decimals of a percentage (a nearest one, as far as the floats of the
\* arrays can tell) and divided by 100; aAcc appears under "aAcc" only; and
\* there is exactly one per-class entry per (metric, class) pair.
C5_AggregationMatchesFormulas ==
    e_pc = "done" =>
      /\ \A name \in PerClassNames :
            /\ ("m" \o name) \in DOMAIN e_out
            /\ e_out["m" \o name] \in
                 RoundedFractions(MeanOfDefined(ODVal(ReturnedMetrics, name).v),
                                  MostRoundings)
            /\ \A c \in ClassIndex :
                 /\ (name \o "." \o e_self.CLASSES[c]) \in DOMAIN e_out
                 /\ e_out[name \o "." \o e_self.CLASSES[c]] \in
                      RoundedFractions(ODVal(ReturnedMetrics, name).v[c], MostRoundings)
      /\ "aAcc" \in DOMAIN e_out
      /\ e_out["aAcc"] \in RoundedFractions(ODVal(ReturnedMetrics, "aAcc").v, MostRoundings)
      /\ "maAcc" \notin DOMAIN e_out
      /\ \A c \in ClassIndex : ("aAcc." \o e_self.CLASSES[c]) \notin DOMAIN e_out
      /\ DOMAIN e_out =
            {"aAcc"} \cup {"m" \o name : name \in PerClassNames}
            \cup {name \o "." \o e_self.CLASSES[c] :
                    name \in PerClassNames, c \in ClassIndex}
      /\ Cardinality(DOMAIN e_out \ ({"aAcc"} \cup
                        {"m" \o name : name \in PerClassNames}))
            = Cardinality(PerClassNames) * Len(e_self.CLASSES)

\* Two classes, one of them without any pixel: its IoU is NaN and the mean
\* is that of the other class alone.
C5_Witness ==
    /\ e_pc = "done"
    /\ e_areas = << <<0, 0, 0>>, <<1, 2, 3>> >>
    /\ "mIoU" \in DOMAIN e_out
    /\ e_out["mIoU"] = <<2500, 10000>>
    /\ e_out["IoU.road"] = <<2500, 10000>>
    /\ e_out["IoU.background"] = <<0, 0>>

\* The place results[j] (j counted from 0) has in the concatenation of
\* results[0::n], ..., results[n-1::n] of a list of len entries.
PlaceAfterReorder(j, n, len) ==
    Cardinality({x \in 0..(len - 1) : x % n < j % n}) + (j \div n) + 1

\* The dataset index of the entry at position p of the round-robin
\* interleaving of n per-rank lists of m entries, rank r covering the
\* dataset indices r*m+1 .. (r+1)*m.
InterleavedIndex(p, n, m) == ((p - 1) % n) * m + ((p - 1) \div n) + 1

Occurrences(seq, x) == Cardinality({i \in 1..Len(seq) : seq[i] = x})

\* C13: with num_gpus = n > 1 the list used for the metrics is the
\* concatenation of results[i::n] for i = 0..n-1, a permutation of the
\* input; when the input interleaves n equal-length per-rank lists that
\* each cover a contiguous block of dataset indices, the reordered list is
\* in dataset index order; with num_gpus = 1 the list is unchanged.
C13_ReorderRestoresDatasetOrder ==
    e_pc \notin {"idle", "start"} =>
      LET n == e_self.num_gpus
          input == e_args.results
          len == Len(input)
      IN  /\ Len(e_results) = len
          /\ \A x \in Range(input) \cup Range(e_results) :
                Occurrences(e_results, x) = Occurrences(input, x)
          /\ n = 1 => e_results = input
          /\ n > 1 => \A j \in 0..(len - 1) :
                e_results[PlaceAfterReorder(j, n, len)] = input[j + 1]
          /\ len % n = 0 => \A q \in 1..len :
                InterleavedIndex(e_results[q], n, len \div n) = q

\* Two ranks with two results each: the interleaved input 1,2,3,4 (ranks
\* 0,1,0,1) was put back as 1,3,2,4.
C13_Witness ==
    /\ e_pc \notin {"idle", "start"}
    /\ e_self.num_gpus = 2
    /\ e_args.results = <<1, 2, 3, 4>>
    /\ e_results = <<1, 3, 2, 4>>

(***************************************************************************)
(* Properties of transform and train_segmentor                             *)
(***************************************************************************)
\* Whether float32 holds the integer v (below 2^25) exactly.
Float32Holds(v) == v <= 2^24 \/ v % 2 = 0

\* d is what v becomes as a float32: v itself where float32 holds it, a
\* neighbour that float32 holds otherwise.
IsFloat32Of(d, v) ==
    /\ Float32Holds(d)
    /\ Float32Holds(v) => d = v
    /\ d - v \in {-1, 0, 1}

\* The stored channel that channel c of the delivered image shows.
StoredChannel(c, channels) == IF channels = 1 THEN 1 ELSE channels + 1 - c

\* C14: for a stored image of shape (H,W), (H,W,1) or (H,W,3) the pipeline
\* receives a float32 image of shape (H,W,3) whose channels are the stored
\* ones in reverse order (three equal channels for a one-channel or a
\* two-dimensional image); img_shape and ori_shape are the shape of that
\* image; the mask is passed unchanged as gt_semantic_seg; the result of
\* transform is the result of the pipeline on that record.
C14_PipelineReceivesBgrFloatImage ==
    x_pc = "returned" =>
      LET stored == x_in.img
          h == stored.shape[1]
          w == stored.shape[2]
          channels == IF Len(stored.shape) = 2 THEN 1 ELSE stored.shape[3]
          given == x_record.img
      IN  /\ given.is_ndarray
          /\ given.dtype = "float32"
          /\ given.shape = <<h, w, 3>>
          /\ Len(given.px) = h * w
          /\ \A i \in 1..(h * w) :
                /\ Len(given.px[i]) = 3
                /\ \A c \in 1..3 :
                      IsFloat32Of(given.px[i][c],
                                  stored.px[i][StoredChannel(c, channels)])
          /\ stored.dtype = "uint8" =>
                \A i \in 1..(h * w) : \A c \in 1..3 :
                   given.px[i][c] = stored.px[i][StoredChannel(c, channels)]
          /\ x_record.img_shape = given.shape
          /\ x_record.ori_shape = given.shape
          /\ x_record.gt_semantic_seg.px = x_in.mask.px
          /\ x_record.gt_semantic_seg.shape = x_in.mask.shape
          /\ x_record.gt_semantic_seg.dtype = x_in.mask.dtype
          /\ x_record.img_fields = <<"img">>
          /\ x_record.seg_fields = <<"gt_semantic_seg">>
          /\ x_out.img = given
          /\ x_out.gt_semantic_seg = x_record.gt_semantic_seg
          /\ x_in.pipeline = "Identity" => x_out = x_record

\* A three-channel image came out with its first and last channel
\* exchanged.
C14_Witness ==
    /\ x_pc = "returned"
    /\ x_in.img.shape = <<1, 2, 3>>
    /\ x_in.img.dtype = "uint8"
    /\ x_in.img.px[1] = <<255, 0, 128>>
    /\ x_record.img.px[1] = <<128, 0, 255>>
    /\ x_record.img.dtype = "float32"

\* The ranks of the calls of _train_segmentor made so far.
RanksCalled == {s_calls[i].local_rank : i \in 1..Len(s_calls)}

Started == {r \in 1..Len(s_procs) : s_procs[r] # "pending"}

\* C15: with distributed=True exactly len(cfg.gpu_ids) processes are
\* spawned, each runs _train_segmentor once with a rank of its own in
\* 0..len(cfg.gpu_ids)-1 and with the one port the parent chose before
\* spawning, and wraps its model on device cfg.gpu_ids[rank]; with
\* distributed=False _train_segmentor runs once, in the calling process,
\* with rank 0 and no port, and sets up no process group.
C15_OneWorkerPerGpu ==
    LET n == Len(s_gpu_ids) IN
    /\ (s_args.distributed /\ s_pc \in {"spawned", "done"}) =>
          /\ Len(s_procs) = n
          /\ s_port_calls = 1
          /\ s_port = FreePort
          /\ Len(s_calls) = Cardinality(Started)
          /\ Cardinality(RanksCalled) = Len(s_calls)
          /\ RanksCalled \subseteq 0..(n - 1)
          /\ \A i \in 1..Len(s_calls) :
                LET call == s_calls[i]
                    device == s_gpu_ids[call.local_rank + 1]
                IN  /\ call.process = "child"
                    /\ call.distributed
                    /\ call.port = s_port
                    /\ call.events =
                          << <<"force_cudnn_initialization", device>>,
                             <<"ddp_setup", call.local_rank, n, s_port>>,
                             <<"build_ddp", device>> >>
          /\ s_pc = "done" =>
                /\ Len(s_calls) = n
                /\ RanksCalled = 0..(n - 1)
    /\ ~s_args.distributed =>
          /\ s_port = None
          /\ s_port_calls = 0
          /\ s_procs = <<>>
          /\ Len(s_calls) <= 1
          /\ s_pc = "done" =>
                /\ Len(s_calls) = 1
                /\ s_calls[1].process = "parent"
                /\ s_calls[1].local_rank = 0
                /\ s_calls[1].port = None
                /\ s_calls[1].events = << <<"build_dp", s_gpu_ids>> >>

\* Two GPU ids, 2 and 3: two processes ran, the one of rank 1 first, both
\* with the parent's port.
C15_Witness ==
    /\ s_pc = "done"
    /\ s_args.distributed
    /\ s_gpu_ids = <<2, 3>>
    /\ Len(s_calls) = 2
    /\ s_calls[1].local_rank = 1
    /\ s_calls[1].events[1] = <<"force_cudnn_initialization", 3>>
    /\ s_calls[2].port = s_calls[1].port

====
